---- MODULE Spec2Model ----
(***************************************************************************)
(* Model of the slot-based stage builder                                   *)
(* (src/mongo/db/query/sbe_stage_builder.cpp): the recursive lowering of a *)
(* query-solution tree into a tree of slot-based stages, with the          *)
(* requirements passed down (PlanStageReqs) and the slot bindings passed   *)
(* up (PlanStageSlots).                                                    *)
(***************************************************************************)
EXTENDS Integers, Sequences, FiniteSets, TLC

VARIABLES
    root,       \* the query solution tree handed to the builder
    cq,         \* the canonical query: [tailable, collator]
    reqs,       \* the requirements of the build() call under study
    mode,       \* "top", "calls", "run": build(root); "rec", "sort", "merge", "arrays",
                \* "keys", "and": build(root, reqs);
                \* "key": rehydration; "cleanup": the cleanupReshardCollection command
    pc,         \* "ready" before the call, "done" after it, "aborted" by an invariant
    res,        \* what the call returned
    data,       \* the builder's fields: flags set by the constructor, _buildHasStarted
    keyPattern, \* rehydration: the index key pattern, a sequence of dotted paths
    keySlots,   \* rehydration: the slot of each key component
    keyExpr,    \* rehydration: the newObj expression that was built
    exec,       \* execution: the resumeRecordId slot, the driver's writes, the runs
    row,        \* execution of a sort plan on one document: the keys, the failure
    cmd         \* the cleanupReshardCollection command: the server, the request, the outcome

vars == <<root, cq, reqs, mode, pc, res, data, keyPattern, keySlots, keyExpr, exec, row, cmd>>

-----------------------------------------------------------------------------
(* Bounds of the model. *)

\* Largest number of nodes of a query solution tree handed to build(root).
MaxNodes == 3
\* Largest number of nodes of a tree handed to build(root, reqs) with arbitrary reqs.
MaxRecNodes == 2
\* Largest number of components of an index key pattern that is rehydrated.
MaxKeyParts == 3
\* Largest number of field names on one dotted path of a rehydrated key pattern.
MaxPathLen == 2
\* The largest number of nodes of a solution whose builder is called repeatedly.
MaxCallNodes == 2
MaxSortParts == 3
MaxWrites == 2
MaxIterations == 3
MaxRecordId == 2
MaxMergeSortParts == 2
MaxCheckParts == 3
MaxArrayLen == 2
MaxAndChildren == 3

-----------------------------------------------------------------------------
(* Small helpers on sequences. *)

Range(s) == {s[i] : i \in 1..Len(s)}

RECURSIVE SeqSum(_)
SeqSum(s) == IF s = <<>> THEN 0 ELSE Head(s) + SeqSum(Tail(s))

IsPrefix(p, q) == Len(p) <= Len(q) /\ SubSeq(q, 1, Len(p)) = p

\* The positions of a bitset in increasing order.
RECURSIVE BitsInOrder(_)
BitsInOrder(bits) ==
    IF bits = {} THEN <<>>
    ELSE LET m == CHOOSE x \in bits : \A y \in bits : x <= y
         IN <<m>> \o BitsInOrder(bits \ {m})

-----------------------------------------------------------------------------
(* PlanStageReqs: the requirements a parent passes to a child. *)

kResult == "result"
kRecordId == "recordId"
kReturnKey == "returnKey"
kOplogTs == "oplogTs"

SlotNames == {kResult, kRecordId, kReturnKey, kOplogTs}

\* The order in which the slot names of a requirements value are visited.
NameOrder == <<kResult, kRecordId, kReturnKey, kOplogTs>>

NoBitset == [has |-> FALSE, bits |-> {}]
SomeBitset(b) == [has |-> TRUE, bits |-> b]

NewReqs == [slots |-> {}, ikb |-> NoBitset, resume |-> FALSE, union |-> FALSE]

ReqsHas(r, n) == n \in r.slots
ReqsSet(r, n) == [r EXCEPT !.slots = @ \cup {n}]
ReqsSetIf(r, n, c) == IF c THEN ReqsSet(r, n) ELSE r
ReqsClear(r, n) == [r EXCEPT !.slots = @ \ {n}]
ReqsSetBitset(r, b) == [r EXCEPT !.ikb = b]

\* The required names of r in visiting order.
RequiredNames(r) == SelectSeq(NameOrder, LAMBDA n : n \in r.slots)

-----------------------------------------------------------------------------
(* PlanStageSlots: the bindings a child returns to its parent. *)

NoVector == [has |-> FALSE, v |-> <<>>]
SomeVector(v) == [has |-> TRUE, v |-> v]

EmptySlots == [slots |-> <<>>, iks |-> NoVector]

SlotsHas(o, n) == n \in DOMAIN o.slots
SlotsGet(o, n) == o.slots[n]
SlotsSet(o, n, s) ==
    [o EXCEPT !.slots = [m \in (DOMAIN o.slots) \cup {n} |-> IF m = n THEN s ELSE o.slots[m]]]
SlotsClear(o, n) ==
    [o EXCEPT !.slots = [m \in (DOMAIN o.slots) \ {n} |-> o.slots[m]]]
SlotsSetIndexKeySlots(o, vec) == [o EXCEPT !.iks = vec]

\* PlanStageSlots(reqs, slotIdGenerator): one fresh slot per required name; 'gen' is
\* the last id the generator handed out.
SlotsFromReqs(r, gen) ==
    LET names == RequiredNames(r)
    IN [slots |-> [n \in Range(names) |->
                      gen + (CHOOSE i \in 1..Len(names) : names[i] = n)],
        iks |-> NoVector]

\* forEachSlot(reqs, fn): the slots of the required names, in visiting order. It is
\* an invariant failure when a required name is not bound.
ForEachSlotOk(o, r) == r.slots \subseteq DOMAIN o.slots
ForEachSlot(o, r) ==
    LET names == SelectSeq(RequiredNames(r), LAMBDA n : n \in DOMAIN o.slots)
    IN [i \in 1..Len(names) |-> o.slots[names[i]]]

\* Every slot id of a bindings value: the named slots and the index key slots.
NamedSlotIds(o) == {o.slots[n] : n \in DOMAIN o.slots}
AllSlotIds(o) == NamedSlotIds(o) \cup Range(o.iks.v)

-----------------------------------------------------------------------------
(* Index key rehydration: buildKeyPatternTree and buildNewObjExpr.          *)
(* A tree node is addressed by its path from the root; 'order' is the      *)
(* childrenOrder vector of each node and 'slot' the indexKeySlot (a node    *)
(* that is not in DOMAIN slot has none).                                    *)

EmptyTree == [nodes |-> {<<>>}, order |-> [p \in {<<>>} |-> <<>>], slot |-> <<>>]

\* IndexKeyPatternTreeNode::emplace on the node at path p.
Emplace(t, p, part) ==
    LET q == Append(p, part)
    IN [nodes |-> t.nodes \cup {q},
        order |-> [n \in t.nodes \cup {q} |->
                      IF n = p THEN Append(t.order[p], part)
                      ELSE IF n = q THEN <<>> ELSE t.order[n]],
        slot |-> t.slot]

\* The inner loop of buildKeyPatternTree over the parts j.. of one path: returns the
\* tree, the node reached and whether the element is skipped.
RECURSIVE WalkParts(_, _, _, _)
\* The inner loop without the bail-out: a sub-path of an indexed path stops at the
\* indexed node and is not skipped.
WalkPartsWithoutSkip(t, node, fr, j) ==
    IF j > Len(fr) THEN [t |-> t, node |-> node, skipElem |-> FALSE]
    ELSE LET child == Append(node, fr[j])
         IN IF child \in t.nodes
            THEN IF child \in DOMAIN t.slot
                 THEN [t |-> t, node |-> child, skipElem |-> FALSE]
                 ELSE WalkParts(t, child, fr, j + 1)
            ELSE WalkParts(Emplace(t, node, fr[j]), child, fr, j + 1)

WalkParts(t, node, fr, j) ==
    IF j > Len(fr) THEN [t |-> t, node |-> node, skipElem |-> FALSE]
    ELSE LET child == Append(node, fr[j])
         IN IF child \in t.nodes
            THEN IF child \in DOMAIN t.slot
                 THEN [t |-> t, node |-> child, skipElem |-> TRUE]
                 ELSE WalkParts(t, child, fr, j + 1)
            ELSE WalkParts(Emplace(t, node, fr[j]), child, fr, j + 1)

RECURSIVE KeyPatternTreeFrom(_, _, _, _)
KeyPatternTreeFrom(t, kp, slots, i) ==
    IF i > Len(kp) THEN t
    ELSE LET w == WalkParts(t, <<>>, kp[i], 1)
             t2 == IF w.skipElem THEN w.t
                   ELSE [w.t EXCEPT !.slot =
                            [n \in (DOMAIN w.t.slot) \cup {w.node} |->
                                IF n = w.node THEN slots[i] ELSE w.t.slot[n]]]
         IN KeyPatternTreeFrom(t2, kp, slots, i + 1)

buildKeyPatternTree(kp, slots) == KeyPatternTreeFrom(EmptyTree, kp, slots, 1)

\* buildNewObjExpr: a newObj expression is [obj |-> <<field, value>> pairs in order]
\* and a slot variable is [var |-> slot].
RECURSIVE NewObjExprAt(_, _)
NewObjExprAt(t, p) ==
    [obj |-> [k \in 1..Len(t.order[p]) |->
        LET child == Append(p, t.order[p][k])
        IN [name |-> t.order[p][k],
            val |-> IF child \in DOMAIN t.slot
                    THEN [var |-> t.slot[child]]
                    ELSE NewObjExprAt(t, child)]]]

buildNewObjExpr(t) == NewObjExprAt(t, <<>>)

\* rehydrateIndexKey: the expression projected into the result slot.
rehydrateIndexKey(kp, slots) == buildNewObjExpr(buildKeyPatternTree(kp, slots))

-----------------------------------------------------------------------------
(* Query solution nodes. Every node is a record                             *)
(*   [kind, kids, flagA, flagB, pat, fields, num]                           *)
(* whose payload fields are read through the accessors below.               *)

Node(kind, kids, flagA, flagB, pat, fields, num) ==
    [kind |-> kind, kids |-> kids, flagA |-> flagA, flagB |-> flagB,
     pat |-> pat, fields |-> fields, num |-> num]

\* CollectionScanNode
shouldTrackLatestOplogTimestamp(n) == n.flagA
\* VirtualScanNode
hasRecordId(n) == n.flagA
scanTypeIsIxscan(n) == n.flagB
indexKeyPattern(n) == n.pat
\* IndexScanNode
addKeyMetadata(n) == n.flagA
keyPatternOf(n) == n.pat
\* FetchNode, OrNode
hasFilter(n) == IF n.kind = "FETCH" THEN n.flagA ELSE n.flagB
\* OrNode, MergeSortNode
dedup(n) == n.flagA
\* SortNode, MergeSortNode: the sort pattern, a sequence of [path, asc]
sortPattern(n) == n.pat
\* ProjectionNodeCovered
coveredKeyObj(n) == n.pat
requiredFields(n) == n.fields
\* ShardingFilterNode: the key pattern of the filterer the factory makes for it
shardKeyPattern(n) == n.pat
\* LimitNode, SkipNode
limitOf(n) == n.num
skipOf(n) == n.num

\* No limit or no skip of a LimitSkipStage (boost::none).
None == 0 - 1

\* QuerySolutionNode::fetched()
RECURSIVE fetched(_)
fetched(n) ==
    CASE n.kind \in {"COLLSCAN", "FETCH", "PROJECTION_SIMPLE", "PROJECTION_DEFAULT",
                     "PROJECTION_COVERED", "TEXT_OR", "TEXT_MATCH"} -> TRUE
      [] n.kind = "VIRTUAL_SCAN" -> ~scanTypeIsIxscan(n)
      [] n.kind \in {"IXSCAN", "EOF", "DISTINCT_SCAN"} -> FALSE
      [] n.kind \in {"OR", "SORT_MERGE"} -> \A i \in 1..Len(n.kids) : fetched(n.kids[i])
      [] n.kind \in {"AND_HASH", "AND_SORTED"} ->
             \E i \in 1..Len(n.kids) : fetched(n.kids[i])
      [] OTHER -> Len(n.kids) > 0 /\ fetched(n.kids[1])

\* getNodeByType: the first node of the given type in pre-order, as the sequence
\* <<node>>, or <<>> when there is none (nullptr).
RECURSIVE getNodeByType(_, _)
RECURSIVE FirstInKids(_, _, _)
FirstInKids(kids, type, i) ==
    IF i > Len(kids) THEN <<>>
    ELSE LET r == getNodeByType(kids[i], type)
         IN IF r # <<>> THEN r ELSE FirstInKids(kids, type, i + 1)
getNodeByType(n, type) ==
    IF n.kind = type THEN <<n>> ELSE FirstInKids(n.kids, type, 1)

-----------------------------------------------------------------------------
(* Stages of the physical plan and the state threaded through a build.      *)
(* A stage records its operator, its input stages, the slots it writes and  *)
(* operator-specific details.                                               *)

Stage(op, kids, defs, at) == [op |-> op, kids |-> kids, defs |-> defs, at |-> at]

NoStage == Stage("none", <<>>, {}, <<>>)

\* Every slot some operator of the stage tree writes.
RECURSIVE DefinedSlots(_)
DefinedSlots(s) ==
    s.defs \cup UNION {DefinedSlots(s.kids[i]) : i \in 1..Len(s.kids)}

\* Number of operators of a given kind in the stage tree.
RECURSIVE CountOps(_, _)
CountOps(s, op) ==
    (IF s.op = op THEN 1 ELSE 0) + SeqSum([i \in 1..Len(s.kids) |-> CountOps(s.kids[i], op)])

\* Builder state threaded through the recursion: 'gen' is the slot id generator
\* (the last id handed out), 'env' the named slots of the runtime environment,
\* 'sites' the nodes (paths from the root) at which the tailable union was built,
\* 'keyOf' the key component that each index key slot holds, 'alloc' the calls of
\* build(root, reqs) so far with the slot ids handed out during each.
Ok(stage, out, st) == [ok |-> TRUE, err |-> "", stage |-> stage, out |-> out, st |-> st]
Fail(st, err) == [ok |-> FALSE, err |-> err, stage |-> NoStage, out |-> EmptySlots, st |-> st]

\* SlotIdGenerator::generate and generateMultiple: ids gen+1 .. gen+k.
Generate(st, k) == [st EXCEPT !.gen = @ + k]
FreshVector(st, k) == [i \in 1..k |-> st.gen + i]

\* RuntimeEnvironment::registerSlot(name, ...): a fresh slot under a new name.
EnvHas(st, name) == name \in DOMAIN st.env
registerSlot(st, name) ==
    [st EXCEPT !.gen = @ + 1,
               !.env = [m \in (DOMAIN st.env) \cup {name} |->
                           IF m = name THEN st.gen + 1 ELSE st.env[m]]]

\* makeRuntimeEnvironment: "timeZoneDB" always, "collator" iff the query has one.
makeRuntimeEnvironment(hasCollator) ==
    LET s0 == [gen |-> 0, env |-> <<>>, sites |-> <<>>, keyOf |-> {}]
        s1 == registerSlot(s0, "timeZoneDB")
    IN IF hasCollator THEN registerSlot(s1, "collator") ELSE s1

RecordKeys(st, vec, positions) ==
    [st EXCEPT !.keyOf = @ \cup {[slot |-> vec[i], pos |-> positions[i]] : i \in 1..Len(vec)}]

-----------------------------------------------------------------------------
(* Helpers of the builder that live outside sbe_stage_builder.cpp.          *)

\* makeIndexKeyInclusionSet(indexKeyPattern, requiredFields): the positions of the
\* key pattern whose field is required, and those fields in key pattern order.
makeIndexKeyInclusionSet(kp, fields) ==
    [bits |-> {i - 1 : i \in {j \in 1..Len(kp) : kp[j] \in fields}},
     names |-> SelectSeq(kp, LAMBDA f : f \in fields)]

\* makeIndexKeyOutputSlotsMatchingParentReqs: of the child's slots (one per bit of
\* childBits, in increasing position) those whose position is in parentBits.
makeIndexKeyOutputSlotsMatchingParentReqs(parentBits, childBits, childSlots) ==
    LET pos == BitsInOrder(childBits)
        keep == {i \in 1..Len(pos) : pos[i] \in parentBits /\ i <= Len(childSlots)}
    IN [k \in 1..Cardinality(keep) |->
           childSlots[CHOOSE i \in keep : Cardinality({j \in keep : j < i}) = k - 1]]

\* generateCollScan: a scan that binds result and recordId, and oplogTs when the
\* node tracks the latest oplog timestamp.
generateCollScan(n, r, st) ==
    LET k == IF shouldTrackLatestOplogTimestamp(n) THEN 3 ELSE 2
        out0 == SlotsSet(SlotsSet(EmptySlots, kResult, st.gen + 1), kRecordId, st.gen + 2)
        out == IF shouldTrackLatestOplogTimestamp(n)
               THEN SlotsSet(out0, kOplogTs, st.gen + 3) ELSE out0
    IN [stage |-> Stage("scan", <<>>, (st.gen + 1)..(st.gen + k),
                        [seek |-> IF r.resume /\ EnvHas(st, "resumeRecordId")
                                  THEN st.env["resumeRecordId"] ELSE 0]),
        out |-> out,
        st |-> Generate(st, k)]

\* generateIndexScan: an index scan that binds recordId and one slot per bit of the
\* index key bitset, in increasing position.
generateIndexScan(n, bits, st) ==
    LET pos == BitsInOrder(bits)
        rid == st.gen + 1
        st1 == Generate(st, 1)
        vec == FreshVector(st1, Len(pos))
    IN [stage |-> Stage("ixscan", <<>>, {rid} \cup Range(vec), [keys |-> vec, pos |-> pos]),
        out |-> SlotsSetIndexKeySlots(SlotsSet(EmptySlots, kRecordId, rid), SomeVector(vec)),
        st |-> RecordKeys(Generate(st1, Len(pos)), vec, pos)]

\* generateVirtualScanMulti: numSlots output slots, then the two slots of the
\* array constant and of the unwind.
generateVirtualScanMulti(st, numSlots) ==
    LET scanSlots == FreshVector(st, numSlots)
    IN [scanSlots |-> scanSlots,
        stage |-> Stage("virtscan", <<>>, (st.gen + 1)..(st.gen + numSlots + 2),
                        [out |-> scanSlots]),
        st |-> Generate(st, numSlots + 2)]

\* generateFilter: a filter stage over the input that forwards the relevant slots.
generateFilter(stage, inputSlot, relevantSlots) ==
    Stage("filter", <<stage>>, {}, [in |-> inputSlot, fwd |-> relevantSlots])

\* generateProjection: the projected document in a fresh slot.
generateProjection(stage, st, inputSlot, relevantSlots) ==
    [slot |-> st.gen + 1,
     stage |-> Stage("project", <<stage>>, {st.gen + 1},
                     [in |-> inputSlot, fwd |-> relevantSlots]),
     st |-> Generate(st, 1)]

makeProjectStage(stage, slot, expr) == Stage("project", <<stage>>, {slot}, [expr |-> expr])

makeLimitSkip(stage, limit, skip) ==
    Stage("limitskip", <<stage>>, {}, [limit |-> limit, skip |-> skip])

-----------------------------------------------------------------------------
(* The translators of the leaves.                                           *)

\* generateEofPlan / buildEof
buildEof(n, r, st) ==
    LET outputs == SlotsFromReqs(r, st.gen)
        projects == Range(ForEachSlot(outputs, r))
        st1 == Generate(st, Cardinality(r.slots))
        eof == makeLimitSkip(Stage("coscan", <<>>, {}, <<>>), 0, None)
    IN Ok(IF projects # {} THEN Stage("project", <<eof>>, projects, [expr |-> "Nothing"])
          ELSE eof,
          outputs, st1)

buildCollScan(n, r, st) ==
    IF r.ikb.has THEN Fail(st, "invariant: buildCollScan: index keys requested")
    ELSE LET g == generateCollScan(n, r, st)
             wantsKey == ReqsHas(r, kReturnKey)
             rk == g.st.gen + 1
             outputs == IF wantsKey THEN SlotsSet(g.out, kReturnKey, rk) ELSE g.out
             stage == IF wantsKey THEN makeProjectStage(g.stage, rk, <<"newObj">>)
                      ELSE g.stage
             st1 == IF wantsKey THEN Generate(g.st, 1) ELSE g.st
         IN IF ReqsHas(r, kOplogTs) /\ ~SlotsHas(outputs, kOplogTs)
            THEN Fail(st1, "invariant: buildCollScan: no oplogTs slot")
            ELSE Ok(stage, outputs, st1)

\* The branch "else if (reqs.getIndexKeyBitset())" of buildVirtualScan: one getField
\* projection per requested position of the index key pattern.
VirtualScanIndexKeys(n, r, scan) ==
    LET pos == SelectSeq(BitsInOrder(r.ikb.bits), LAMBDA b : b < Len(indexKeyPattern(n)))
        vec == FreshVector(scan.st, Len(pos))
    IN [stage |-> Stage("project", <<scan.stage>>, Range(vec),
                        [expr |-> [i \in 1..Len(pos) |-> <<"getField", indexKeyPattern(n)[pos[i] + 1]>>]]),
        vec |-> vec,
        st |-> RecordKeys(Generate(scan.st, Len(pos)), vec, pos)]

buildVirtualScan(n, r, st) ==
    IF ~scanTypeIsIxscan(n) /\ r.ikb.has
    THEN Fail(st, "invariant: buildVirtualScan: index keys requested of a collection scan")
    ELSE IF ReqsHas(r, kOplogTs)
    THEN Fail(st, "invariant: buildVirtualScan: oplogTs requested")
    ELSE LET scan == generateVirtualScanMulti(st, IF hasRecordId(n) THEN 2 ELSE 1)
             resultSlot == IF hasRecordId(n) THEN scan.scanSlots[2] ELSE scan.scanSlots[1]
             wantsResult == ReqsHas(r, kResult)
             wantsKeys == ~wantsResult /\ r.ikb.has
             proj == VirtualScanIndexKeys(n, r, scan)
             out1 == IF wantsResult THEN SlotsSet(EmptySlots, kResult, resultSlot)
                     ELSE IF wantsKeys
                          THEN SlotsSetIndexKeySlots(EmptySlots, SomeVector(proj.vec))
                          ELSE EmptySlots
             stage == IF wantsKeys THEN proj.stage ELSE scan.stage
             st1 == IF wantsKeys THEN proj.st ELSE scan.st
         IN IF wantsKeys /\ indexKeyPattern(n) = <<>>
            THEN Fail(scan.st, "invariant: buildVirtualScan: empty index key pattern")
            ELSE IF ReqsHas(r, kRecordId)
                 THEN IF ~hasRecordId(n)
                      THEN Fail(st1, "invariant: buildVirtualScan: no record id")
                      ELSE Ok(stage, SlotsSet(out1, kRecordId, scan.scanSlots[1]), st1)
                 ELSE Ok(stage, out1, st1)

buildIndexScan(n, r, st) ==
    IF ~(ReqsHas(r, kReturnKey) \/ ~addKeyMetadata(n))
    THEN Fail(st, "invariant: buildIndexScan: key metadata without returnKey")
    ELSE IF ReqsHas(r, kOplogTs)
    THEN Fail(st, "invariant: buildIndexScan: oplogTs requested")
    ELSE LET kp == keyPatternOf(n)
             indexKeyBitset ==
                 IF ReqsHas(r, kReturnKey) \/ ReqsHas(r, kResult)
                 THEN 0..(Len(kp) - 1)
                 ELSE IF r.ikb.has THEN r.ikb.bits ELSE {}
             g == generateIndexScan(n, indexKeyBitset, st)
             keys == g.out.iks.v
             wantsKey == ReqsHas(r, kReturnKey)
             rk == g.st.gen + 1
             st1 == IF wantsKey THEN Generate(g.st, 1) ELSE g.st
             out1 == IF wantsKey THEN SlotsSet(g.out, kReturnKey, rk) ELSE g.out
             stage1 == IF wantsKey
                       THEN makeProjectStage(g.stage, rk,
                                [obj |-> [i \in 1..Len(kp) |->
                                             [name |-> kp[i], val |-> [var |-> keys[i]]]]])
                       ELSE g.stage
             wantsResult == ReqsHas(r, kResult)
             rs == st1.gen + 1
             st2 == IF wantsResult THEN Generate(st1, 1) ELSE st1
             out2 == IF wantsResult THEN SlotsSet(out1, kResult, rs) ELSE out1
             stage2 == IF wantsResult
                       THEN makeProjectStage(stage1, rs, rehydrateIndexKey(kp, keys))
                       ELSE stage1
             out3 == IF r.ikb.has
                     THEN SlotsSetIndexKeySlots(out2,
                              SomeVector(makeIndexKeyOutputSlotsMatchingParentReqs(
                                             r.ikb.bits, indexKeyBitset, keys)))
                     ELSE SlotsSetIndexKeySlots(out2, NoVector)
         IN Ok(stage2, out3, st2)

-----------------------------------------------------------------------------
(* The recursive translators. build(n, r, st, path) is the dispatcher; 'path' *)
(* is the position of n in the query solution tree (child indexes from the   *)
(* root).                                                                    *)

RECURSIVE build(_, _, _, _)

\* makeLoopJoinForFetch
makeLoopJoinForFetch(inputStage, seekKeySlot, slotsToForward, st) ==
    LET resultSlot == st.gen + 1
        recordIdSlot == st.gen + 2
        scanStage == Stage("scan", <<>>, {resultSlot, recordIdSlot}, [seek |-> seekKeySlot])
    IN [resultSlot |-> resultSlot,
        recordIdSlot |-> recordIdSlot,
        stage |-> Stage("loopjoin", <<inputStage, makeLimitSkip(scanStage, 1, None)>>, {},
                        [fwd |-> slotsToForward, corr |-> <<seekKeySlot>>]),
        st |-> Generate(st, 2)]

\* A variant of buildFetch that forwards the named slots through the join, not the
\* index key slots.
buildFetchNamedSlotsOnly(n, r, st, path) ==
    IF ReqsHas(r, kOplogTs) THEN Fail(st, "invariant: buildFetch: oplogTs requested")
    ELSE LET childReqs == ReqsSet(ReqsClear(r, kResult), kRecordId)
             c == build(n.kids[1], childReqs, st, Append(path, 1))
         IN IF ~c.ok THEN c
            ELSE IF ~SlotsHas(c.out, kRecordId) THEN Fail(c.st, "uassert 4822880")
            ELSE IF ReqsHas(r, kReturnKey) /\ ~SlotsHas(c.out, kReturnKey)
            THEN Fail(c.st, "uassert 4953600")
            ELSE LET forwardingReqs == ReqsClear(ReqsClear(r, kResult), kRecordId)
                     relevantSlots == ForEachSlot(c.out, forwardingReqs)
                     j == makeLoopJoinForFetch(c.stage, SlotsGet(c.out, kRecordId),
                                               relevantSlots, c.st)
                     outputs == SlotsSet(SlotsSet(c.out, kResult, j.resultSlot),
                                         kRecordId, j.recordIdSlot)
                     filterReqs == ReqsSet(ReqsSet(r, kResult), kRecordId)
                     stage == IF hasFilter(n)
                              THEN generateFilter(j.stage, SlotsGet(outputs, kResult),
                                       ForEachSlot(outputs, filterReqs) \o outputs.iks.v)
                              ELSE j.stage
                 IN IF ~ForEachSlotOk(c.out, forwardingReqs)
                    THEN Fail(c.st, "invariant: forEachSlot: slot not bound")
                    ELSE Ok(stage, outputs, j.st)

buildFetch(n, r, st, path) ==
    IF ReqsHas(r, kOplogTs) THEN Fail(st, "invariant: buildFetch: oplogTs requested")
    ELSE LET childReqs == ReqsSet(ReqsClear(r, kResult), kRecordId)
             c == build(n.kids[1], childReqs, st, Append(path, 1))
         IN IF ~c.ok THEN c
            ELSE IF ~SlotsHas(c.out, kRecordId) THEN Fail(c.st, "uassert 4822880")
            ELSE IF ReqsHas(r, kReturnKey) /\ ~SlotsHas(c.out, kReturnKey)
            THEN Fail(c.st, "uassert 4953600")
            ELSE LET forwardingReqs == ReqsClear(ReqsClear(r, kResult), kRecordId)
                     relevantSlots == ForEachSlot(c.out, forwardingReqs) \o c.out.iks.v
                     j == makeLoopJoinForFetch(c.stage, SlotsGet(c.out, kRecordId),
                                               relevantSlots, c.st)
                     outputs == SlotsSet(SlotsSet(c.out, kResult, j.resultSlot),
                                         kRecordId, j.recordIdSlot)
                     filterReqs == ReqsSet(ReqsSet(r, kResult), kRecordId)
                     stage == IF hasFilter(n)
                              THEN generateFilter(j.stage, SlotsGet(outputs, kResult),
                                       ForEachSlot(outputs, filterReqs) \o outputs.iks.v)
                              ELSE j.stage
                 IN IF ~ForEachSlotOk(c.out, forwardingReqs)
                    THEN Fail(c.st, "invariant: forEachSlot: slot not bound")
                    ELSE Ok(stage, outputs, j.st)

\* A variant of buildLimit that wraps whatever the recursion left behind, failed or not.
buildLimitOverFailedChild(n, r, st, path) ==
    LET fuse == n.kids[1].kind = "SKIP"
        skip == IF fuse THEN skipOf(n.kids[1]) ELSE None
        c == IF fuse THEN build(n.kids[1].kids[1], r, st, path \o <<1, 1>>)
             ELSE build(n.kids[1], r, st, Append(path, 1))
    IN IF ~r.resume THEN Ok(makeLimitSkip(c.stage, limitOf(n), skip), c.out, c.st)
       ELSE c

\* A variant of buildLimit that dispatches the skip node under it like any child.
buildLimitUnfused(n, r, st, path) ==
    LET c == build(n.kids[1], r, st, Append(path, 1))
    IN IF ~c.ok THEN c
       ELSE IF ~r.resume THEN Ok(makeLimitSkip(c.stage, limitOf(n), None), c.out, c.st)
       ELSE c

buildLimit(n, r, st, path) ==
    LET fuse == n.kids[1].kind = "SKIP"
        skip == IF fuse THEN skipOf(n.kids[1]) ELSE None
        c == IF fuse THEN build(n.kids[1].kids[1], r, st, path \o <<1, 1>>)
             ELSE build(n.kids[1], r, st, Append(path, 1))
    IN IF ~c.ok THEN c
       ELSE IF ~r.resume THEN Ok(makeLimitSkip(c.stage, limitOf(n), skip), c.out, c.st)
       ELSE c

\* A variant of buildSkip that emits its operator in the resume branch as well.
buildSkipInBothBranches(n, r, st, path) ==
    LET c == build(n.kids[1], r, st, Append(path, 1))
    IN IF ~c.ok THEN c
       ELSE Ok(makeLimitSkip(c.stage, None, skipOf(n)), c.out, c.st)

buildSkip(n, r, st, path) ==
    LET c == build(n.kids[1], r, st, Append(path, 1))
    IN IF ~c.ok THEN c
       ELSE IF ~r.resume THEN Ok(makeLimitSkip(c.stage, None, skipOf(n)), c.out, c.st)
       ELSE c

\* A runtime value: its type tag, its number, its elements and, for an object, the
\* names of its fields (for a string, the string).
Value(t, n, items, names) == [t |-> t, n |-> n, items |-> items, names |-> names]
Scalar(t, n) == Value(t, n, <<>>, <<>>)

\* generateArrayCheckForSortHelper: is there an array at 'level' of the path or below.
RECURSIVE generateArrayCheckForSortHelper(_, _, _, _)
generateArrayCheckForSortHelper(inputExpr, fp, level, frame) ==
    LET fieldExpr == <<"fillEmpty",
                       <<"getField", inputExpr,
                         <<"const", Value("String", 0, <<>>, <<fp[level + 1]>>)>> >>,
                       <<"const", Scalar("Null", 0)>> >>
    IN IF level = Len(fp) - 1
       THEN [expr |-> <<"isArray", fieldExpr>>, frame |-> frame]
       ELSE LET frameId == frame + 1
                below == generateArrayCheckForSortHelper(<<"lvar", frameId>>, fp,
                                                         level + 1, frameId)
            IN [expr |-> <<"let", frameId, fieldExpr,
                           <<"logicOr", <<"isArray", <<"lvar", frameId>> >>, below.expr>> >>,
                frame |-> below.frame]

\* A variant of generateArrayCheckForSort that looks at the top-level field only.
generateArrayCheckForSortTopLevel(inputSlot, fp, frame) ==
    [expr |-> <<"isArray", <<"var", inputSlot>> >>, frame |-> frame]

generateArrayCheckForSort(inputSlot, fp, frame) ==
    IF Len(fp) = 1
    THEN [expr |-> <<"isArray", <<"var", inputSlot>> >>, frame |-> frame]
    ELSE LET below == generateArrayCheckForSortHelper(<<"var", inputSlot>>, fp, 1, frame)
         IN [expr |-> <<"logicOr", <<"isArray", <<"var", inputSlot>> >>, below.expr>>,
             frame |-> below.frame]

\* The sum of the three-or-more-part form: cmp3w(isArray.., false) of the parts up to idx.
RECURSIVE numArraysExpr(_, _, _, _)
numArraysExpr(pattern, orderBy, idx, frame) ==
    LET before == numArraysExpr(pattern, orderBy, idx - 1, frame)
        check == generateArrayCheckForSort(orderBy[idx], pattern[idx].path,
                                           IF idx = 1 THEN frame ELSE before.frame)
        isArrayCheck == <<"cmp3w", check.expr, <<"const", Scalar("Boolean", 0)>> >>
    IN IF idx = 1 THEN [expr |-> isArrayCheck, frame |-> check.frame]
       ELSE [expr |-> <<"add", before.expr, isArrayCheck>>, frame |-> check.frame]

\* failOnParallelArrays of buildSort: no expression for fewer than two parts.
failOnParallelArrays(pattern, orderBy, frame) ==
    LET parallelArraysError == <<"fail", "BadValue">>
    IN IF Len(pattern) < 2 THEN [has |-> FALSE, expr |-> <<>>, frame |-> frame]
       ELSE IF Len(pattern) = 2
       THEN LET c0 == generateArrayCheckForSort(orderBy[1], pattern[1].path, frame)
                c1 == generateArrayCheckForSort(orderBy[2], pattern[2].path, c0.frame)
            IN [has |-> TRUE,
                expr |-> <<"logicOr", <<"not", c0.expr>>,
                           <<"logicOr", <<"not", c1.expr>>, parallelArraysError>> >>,
                frame |-> c1.frame]
       ELSE LET sum == numArraysExpr(pattern, orderBy, Len(pattern), frame)
            IN [has |-> TRUE,
                expr |-> <<"logicOr",
                           <<"lessEq", sum.expr, <<"const", Scalar("Int", 1)>> >>,
                           parallelArraysError>>,
                frame |-> sum.frame]

\* makeSortKey of buildSort: the leaf value, through the collation when there is one.
makeSortKey(inputSlot, st) ==
    IF ~EnvHas(st, "collator") THEN <<"var", inputSlot>>
    ELSE <<"collComparisonKey", <<"var", inputSlot>>, <<"var", st.env["collator"]>> >>

\* A variant of the fold's comparison that keeps the smaller value in both directions.
foldComparisonLess(asc) == "less"

\* The comparison of the fold: less keeps the minimum, greater the maximum.
foldComparison(asc) == IF asc THEN "less" ELSE "greater"

\* generateSortKeyTraversal: the traversal of one sort part from 'level' down.
RECURSIVE generateSortKeyTraversal(_, _, _, _, _, _)
generateSortKeyTraversal(inputStage, inputSlot, fp, asc, level, st) ==
    LET isLeafField == (level = Len(fp) - 1)
        fieldSlot == IF level > 0 THEN st.gen + 1 ELSE inputSlot
        st1 == IF level > 0 THEN Generate(st, 1) ELSE st
        getFieldExpr == <<"getField", <<"var", inputSlot>>,
                          <<"const", Value("String", 0, <<>>, <<fp[level + 1]>>)>> >>
        fromBranch == IF level > 0
                      THEN makeProjectStage(inputStage, fieldSlot,
                               IF isLeafField
                               THEN <<"fillEmpty", getFieldExpr, <<"const", Scalar("Null", 0)>> >>
                               ELSE getFieldExpr)
                      ELSE inputStage
        limitCoScan == makeLimitSkip(Stage("coscan", <<>>, {}, <<>>), 1, None)
        inner == IF isLeafField
                 THEN [slot |-> st1.gen + 1,
                       stage |-> makeProjectStage(limitCoScan, st1.gen + 1,
                                                  makeSortKey(fieldSlot, st1)),
                       st |-> Generate(st1, 1)]
                 ELSE generateSortKeyTraversal(limitCoScan, fieldSlot, fp, asc,
                                               level + 1, st1)
        traverseSlot == inner.st.gen + 1
        outputSlot == inner.st.gen + 2
        traverse == Stage("traverse", <<fromBranch, inner.stage>>, {traverseSlot},
                          [inField |-> fieldSlot, outField |-> traverseSlot,
                           outFieldInner |-> inner.slot,
                           fold |-> <<"if",
                                      <<foldComparison(asc),
                                        <<"cmp3w", <<"var", inner.slot>>,
                                          <<"var", traverseSlot>> >>,
                                        <<"const", Scalar("Int", 0)>> >>,
                                      <<"var", inner.slot>>, <<"var", traverseSlot>> >>,
                           depth |-> 1])
    IN [slot |-> outputSlot,
        stage |-> makeProjectStage(traverse, outputSlot,
                      <<"fillEmpty", <<"var", traverseSlot>>,
                        <<"const", Scalar(IF isLeafField THEN "Undefined" ELSE "Null", 0)>> >>),
        st |-> Generate(inner.st, 2)]

\* The loop of buildSort that replaces orderBy[idx] by the slot of its traversal.
RECURSIVE SortKeyTraversals(_, _, _, _, _)
SortKeyTraversals(stage, orderBy, pattern, idx, st) ==
    IF idx > Len(orderBy) THEN [stage |-> stage, orderBy |-> orderBy, st |-> st]
    ELSE LET t == generateSortKeyTraversal(stage, orderBy[idx], pattern[idx].path,
                                           pattern[idx].asc, 0, st)
         IN SortKeyTraversals(t.stage, [orderBy EXCEPT ![idx] = t.slot], pattern,
                              idx + 1, t.st)

\* A variant of hasPartsWithCommonPrefix that compares a part with its predecessor only.
hasPartsWithCommonPrefixAdjacent(pattern) ==
    \E i \in 2..Len(pattern) : pattern[i - 1].path[1] = pattern[i].path[1]

\* hasPartsWithCommonPrefix of buildSort: some part's top-level field was already in
\* prefixSet when the part was reached.
hasPartsWithCommonPrefix(pattern) ==
    \E i \in 1..Len(pattern) : \E j \in 1..(i - 1) : pattern[j].path[1] = pattern[i].path[1]

buildSort(n, r, st, path) ==
    IF r.ikb.has THEN Fail(st, "invariant: buildSort: index keys requested")
    ELSE IF Len(sortPattern(n)) = 0 THEN Fail(st, "tassert 5037001")
    ELSE LET pattern == sortPattern(n)
             childReqs == ReqsSet(r, kResult)
             c == build(n.kids[1], childReqs, st, Append(path, 1))
             direction == [i \in 1..Len(pattern) |-> pattern[i].asc]
         IN IF ~c.ok THEN c
            ELSE IF ~ForEachSlotOk(c.out, childReqs)
            THEN Fail(c.st, "invariant: PlanStageSlots: slot not bound")
            ELSE IF ~hasPartsWithCommonPrefix(pattern)
            THEN LET fieldSlots == FreshVector(c.st, Len(pattern))
                     st1 == Generate(c.st, Len(pattern))
                     proj == Stage("project", <<c.stage>>, Range(fieldSlots),
                                   [slots |-> fieldSlots,
                                    expr |-> [i \in 1..Len(pattern) |->
                                       <<"fillEmpty",
                                         <<"getField", <<"var", SlotsGet(c.out, kResult)>>,
                                           <<"const", Value("String", 0, <<>>,
                                                            <<pattern[i].path[1]>>)>> >>,
                                         <<"const", Scalar("Null", 0)>> >>]])
                     check == failOnParallelArrays(pattern, fieldSlots, st1.frame)
                     st2 == IF check.has
                            THEN [Generate(st1, 1) EXCEPT !.frame = check.frame]
                            ELSE st1
                     guarded == IF check.has
                                THEN makeProjectStage(proj, st1.gen + 1, check.expr)
                                ELSE proj
                     t == SortKeyTraversals(guarded, fieldSlots, pattern, 1, st2)
                 IN Ok(Stage("sort", <<t.stage>>, {},
                             [orderBy |-> t.orderBy, direction |-> direction,
                              values |-> ForEachSlot(c.out, childReqs),
                              limit |-> n.num, regime |-> "fast"]),
                       c.out, t.st)
            ELSE LET orderBy == FreshVector(c.st, 1)
                     proj == makeProjectStage(c.stage, orderBy[1],
                                 <<"generateSortKey", SlotsGet(c.out, kResult)>>)
                 IN Ok(Stage("sort", <<proj>>, {},
                             [orderBy |-> orderBy, direction |-> <<TRUE>>,
                              values |-> ForEachSlot(c.out, childReqs),
                              limit |-> n.num, regime |-> "slow"]),
                       c.out, Generate(c.st, 1))

buildSortKeyGeneraror(n, r, st, path) == Fail(st, "uasserted 4822883")

\* A variant of buildProjectionSimple that takes its result slot before it recurses.
buildProjectionSimplePreOrder(n, r, st, path) ==
    IF r.ikb.has THEN Fail(st, "invariant: buildProjectionSimple: index keys requested")
    ELSE LET childReqs == ReqsSet(r, kResult)
             resultSlot == st.gen + 1
             c == build(n.kids[1], childReqs, Generate(st, 1), Append(path, 1))
         IN IF ~c.ok THEN c
            ELSE IF ~SlotsHas(c.out, kResult)
            THEN Fail(c.st, "invariant: PlanStageSlots::get: slot not bound")
            ELSE Ok(Stage("mkbson", <<c.stage>>, {resultSlot},
                          [root |-> SlotsGet(c.out, kResult), fields |-> requiredFields(n),
                           projectFields |-> <<>>, projectVars |-> <<>>]),
                    SlotsSet(c.out, kResult, resultSlot), c.st)

buildProjectionSimple(n, r, st, path) ==
    IF r.ikb.has THEN Fail(st, "invariant: buildProjectionSimple: index keys requested")
    ELSE LET childReqs == ReqsSet(r, kResult)
             c == build(n.kids[1], childReqs, st, Append(path, 1))
         IN IF ~c.ok THEN c
            ELSE IF ~SlotsHas(c.out, kResult)
            THEN Fail(c.st, "invariant: PlanStageSlots::get: slot not bound")
            ELSE Ok(Stage("mkbson", <<c.stage>>, {c.st.gen + 1},
                          [root |-> SlotsGet(c.out, kResult), fields |-> requiredFields(n),
                           projectFields |-> <<>>, projectVars |-> <<>>]),
                    SlotsSet(c.out, kResult, c.st.gen + 1), Generate(c.st, 1))

\* Dereferencing an empty optional is undefined: the node's flagB says whether this
\* build aborts there or goes on with an unspecified (here empty) vector.
derefNoneAborts(n) == n.flagB

\* buildProjectionCovered that leaves the child's index key slots in its outputs.
buildProjectionCoveredKeepsKeySlots(n, r, st, path) ==
    IF r.ikb.has THEN Fail(st, "invariant: buildProjectionCovered: index keys requested")
    ELSE IF fetched(n.kids[1]) THEN Fail(st, "tassert 5037301")
    ELSE LET incl == makeIndexKeyInclusionSet(coveredKeyObj(n), requiredFields(n))
             childReqs == ReqsSetBitset(ReqsClear(r, kResult), SomeBitset(incl.bits))
             c == build(n.kids[1], childReqs, st, Append(path, 1))
         IN IF ~c.ok THEN c
            ELSE IF ~c.out.iks.has /\ derefNoneAborts(n)
            THEN Fail(c.st, "abort: dereference of boost::none")
            ELSE Ok(Stage("mkbson", <<c.stage>>, {c.st.gen + 1},
                          [root |-> 0, fields |-> {}, projectFields |-> incl.names,
                           projectVars |-> c.out.iks.v]),
                    SlotsSet(c.out, kResult, c.st.gen + 1),
                    Generate(c.st, 1))

buildProjectionCovered(n, r, st, path) ==
    IF r.ikb.has THEN Fail(st, "invariant: buildProjectionCovered: index keys requested")
    ELSE IF fetched(n.kids[1]) THEN Fail(st, "tassert 5037301")
    ELSE LET incl == makeIndexKeyInclusionSet(coveredKeyObj(n), requiredFields(n))
             childReqs == ReqsSetBitset(ReqsClear(r, kResult), SomeBitset(incl.bits))
             c == build(n.kids[1], childReqs, st, Append(path, 1))
         IN IF ~c.ok THEN c
            ELSE IF ~c.out.iks.has /\ derefNoneAborts(n)
            THEN Fail(c.st, "abort: dereference of boost::none")
            ELSE Ok(Stage("mkbson", <<c.stage>>, {c.st.gen + 1},
                          [root |-> 0, fields |-> {}, projectFields |-> incl.names,
                           projectVars |-> c.out.iks.v]),
                    SlotsSet(SlotsSetIndexKeySlots(c.out, NoVector), kResult, c.st.gen + 1),
                    Generate(c.st, 1))

buildProjectionDefault(n, r, st, path) ==
    IF r.ikb.has THEN Fail(st, "invariant: buildProjectionDefault: index keys requested")
    ELSE LET childReqs == ReqsSet(r, kResult)
             c == build(n.kids[1], childReqs, st, Append(path, 1))
         IN IF ~c.ok THEN c
            ELSE IF ~ForEachSlotOk(c.out, r) \/ ~SlotsHas(c.out, kResult)
            THEN Fail(c.st, "invariant: PlanStageSlots: slot not bound")
            ELSE LET g == generateProjection(c.stage, c.st, SlotsGet(c.out, kResult),
                                             ForEachSlot(c.out, r))
                 IN Ok(g.stage, SlotsSet(c.out, kResult, g.slot), g.st)

\* buildReturnKey that stores the key in 'result' without clearing 'returnKey'.
buildReturnKeyKeepsReturnKey(n, r, st, path) ==
    IF r.ikb.has THEN Fail(st, "invariant: buildReturnKey: index keys requested")
    ELSE LET childReqs == ReqsSet(ReqsClear(r, kResult), kReturnKey)
             c == build(n.kids[1], childReqs, st, Append(path, 1))
         IN IF ~c.ok THEN c
            ELSE IF ~SlotsHas(c.out, kReturnKey)
            THEN Fail(c.st, "invariant: PlanStageSlots::get: slot not bound")
            ELSE Ok(c.stage, SlotsSet(c.out, kResult, SlotsGet(c.out, kReturnKey)), c.st)

buildReturnKey(n, r, st, path) ==
    IF r.ikb.has THEN Fail(st, "invariant: buildReturnKey: index keys requested")
    ELSE LET childReqs == ReqsSet(ReqsClear(r, kResult), kReturnKey)
             c == build(n.kids[1], childReqs, st, Append(path, 1))
         IN IF ~c.ok THEN c
            ELSE IF ~SlotsHas(c.out, kReturnKey)
            THEN Fail(c.st, "invariant: PlanStageSlots::get: slot not bound")
            ELSE Ok(c.stage,
                    SlotsClear(SlotsSet(c.out, kResult, SlotsGet(c.out, kReturnKey)),
                               kReturnKey),
                    c.st)

\* makeFtsMatcher finds the index of the text match node in the catalog.
ftsIndexFound(n) == n.flagA

buildTextMatch(n, r, st, path) ==
    IF r.ikb.has THEN Fail(st, "tassert 5432213")
    ELSE IF ReqsHas(r, kOplogTs) THEN Fail(st, "tassert 5432214")
    ELSE IF Len(n.kids) # 1 THEN Fail(st, "tassert 5432215")
    ELSE IF ~fetched(n.kids[1]) THEN Fail(st, "tassert 5432216")
    ELSE LET childReqs == ReqsSet(r, kResult)
             c == build(n.kids[1], childReqs, st, Append(path, 1))
             filter == Stage("filter", <<c.stage>>, {},
                             [in |-> SlotsGet(c.out, kResult), fwd |-> <<>>])
             wantsKey == ReqsHas(r, kReturnKey)
         IN IF ~c.ok THEN c
            ELSE IF ~SlotsHas(c.out, kResult) THEN Fail(c.st, "tassert 5432217")
            ELSE IF ~ftsIndexFound(n) THEN Fail(c.st, "tassert 5432209")
            ELSE IF wantsKey
                 THEN Ok(makeProjectStage(filter, c.st.gen + 1, <<"newObj">>),
                         SlotsSet(c.out, kReturnKey, c.st.gen + 1), Generate(c.st, 1))
                 ELSE Ok(filter, c.out, c.st)

-----------------------------------------------------------------------------
(* Translators of the nodes with several children.                          *)

\* Builds kids[i..] in order with the same requirements; stops at the first child
\* whose build fails. 'outs' and 'stages' are those of the children built.
RECURSIVE BuildChildren(_, _, _, _, _)
BuildChildren(kids, r, st, path, i) ==
    IF i > Len(kids) THEN [ok |-> TRUE, err |-> "", stages |-> <<>>, outs |-> <<>>, st |-> st]
    ELSE LET c == build(kids[i], r, st, Append(path, i))
         IN IF ~c.ok
            THEN [ok |-> FALSE, err |-> c.err, stages |-> <<>>, outs |-> <<>>, st |-> c.st]
            ELSE LET rest == BuildChildren(kids, r, c.st, path, i + 1)
                 IN [rest EXCEPT !.stages = <<c.stage>> \o @, !.outs = <<c.out>> \o @]

\* A variant of buildOr whose branch vectors hold the slots the parent asked for.
buildOrBranchSlotsOfParentReqs(n, r, st, path) ==
    IF r.ikb.has THEN Fail(st, "invariant: buildOr: index keys requested")
    ELSE LET childReqs == ReqsSetIf(ReqsSetIf(r, kResult, hasFilter(n)), kRecordId, dedup(n))
             cs == BuildChildren(n.kids, childReqs, st, path, 1)
         IN IF ~cs.ok THEN Fail(cs.st, cs.err)
            ELSE IF \E i \in 1..Len(cs.outs) : ~ForEachSlotOk(cs.outs[i], childReqs)
            THEN Fail(cs.st, "invariant: forEachSlot: slot not bound")
            ELSE LET inputSlots == [i \in 1..Len(cs.outs) |-> ForEachSlot(cs.outs[i], r)]
                     outputs == SlotsFromReqs(childReqs, cs.st.gen)
                     unionOutputSlots == ForEachSlot(outputs, childReqs)
                     st1 == Generate(cs.st, Cardinality(childReqs.slots))
                     union == Stage("union", cs.stages, Range(unionOutputSlots),
                                    [ins |-> inputSlots, outs |-> unionOutputSlots])
                     unique == IF dedup(n)
                               THEN Stage("unique", <<union>>, {},
                                          [keys |-> <<SlotsGet(outputs, kRecordId)>>])
                               ELSE union
                     stage == IF hasFilter(n)
                              THEN generateFilter(unique, SlotsGet(outputs, kResult),
                                       <<SlotsGet(outputs, kResult)>> \o
                                       ForEachSlot(outputs, ReqsClear(r, kResult)))
                              ELSE unique
                 IN Ok(stage, outputs, st1)

buildOr(n, r, st, path) ==
    IF r.ikb.has THEN Fail(st, "invariant: buildOr: index keys requested")
    ELSE LET childReqs == ReqsSetIf(ReqsSetIf(r, kResult, hasFilter(n)), kRecordId, dedup(n))
             cs == BuildChildren(n.kids, childReqs, st, path, 1)
         IN IF ~cs.ok THEN Fail(cs.st, cs.err)
            ELSE IF \E i \in 1..Len(cs.outs) : ~ForEachSlotOk(cs.outs[i], childReqs)
            THEN Fail(cs.st, "invariant: forEachSlot: slot not bound")
            ELSE LET inputSlots == [i \in 1..Len(cs.outs) |-> ForEachSlot(cs.outs[i], childReqs)]
                     outputs == SlotsFromReqs(childReqs, cs.st.gen)
                     unionOutputSlots == ForEachSlot(outputs, childReqs)
                     st1 == Generate(cs.st, Cardinality(childReqs.slots))
                     union == Stage("union", cs.stages, Range(unionOutputSlots),
                                    [ins |-> inputSlots, outs |-> unionOutputSlots])
                     unique == IF dedup(n)
                               THEN Stage("unique", <<union>>, {},
                                          [keys |-> <<SlotsGet(outputs, kRecordId)>>])
                               ELSE union
                     stage == IF hasFilter(n)
                              THEN generateFilter(unique, SlotsGet(outputs, kResult),
                                       <<SlotsGet(outputs, kResult)>> \o
                                       ForEachSlot(outputs, ReqsClear(r, kResult)))
                              ELSE unique
                 IN Ok(stage, outputs, st1)

\* The joins of buildAndHash / buildAndSorted over the children from the third on:
\* the previous join is always the inner side.
RECURSIVE FoldJoins(_, _, _, _, _, _)
\* A variant of the loop that joins with the previous join as the outer side.
FoldJoinsPreviousOuter(op, join, stages, outs, innerCond, innerProject) ==
    IF stages = <<>> THEN join
    ELSE FoldJoins(op,
                   Stage(op, <<join, Head(stages)>>, {},
                         [outerCond |-> innerCond, outerProject |-> innerProject,
                          innerCond |-> <<SlotsGet(Head(outs), kRecordId)>>,
                          innerProject |-> <<SlotsGet(Head(outs), kResult)>>]),
                   Tail(stages), Tail(outs), innerCond, innerProject)

FoldJoins(op, join, stages, outs, innerCond, innerProject) ==
    IF stages = <<>> THEN join
    ELSE FoldJoins(op,
                   Stage(op, <<Head(stages), join>>, {},
                         [outerCond |-> <<SlotsGet(Head(outs), kRecordId)>>,
                          outerProject |-> <<SlotsGet(Head(outs), kResult)>>,
                          innerCond |-> innerCond, innerProject |-> innerProject]),
                   Tail(stages), Tail(outs), innerCond, innerProject)

\* The common body of buildAndHash (op "hashjoin") and buildAndSorted ("mergejoin").
BuildAnd(op, n, r, st, path) ==
    IF Len(n.kids) < 2 THEN Fail(st, "tassert: need at least two children")
    ELSE LET childReqs == ReqsSet(ReqsSet(r, kResult), kRecordId)
             outer == build(n.kids[1], childReqs, st, Append(path, 1))
             inner == build(n.kids[2], childReqs, outer.st, Append(path, 2))
             innerIdSlot == SlotsGet(inner.out, kRecordId)
             innerResultSlot == SlotsGet(inner.out, kResult)
             outputs0 == SlotsFromReqs(r, inner.st.gen)
             st1 == Generate(inner.st, Cardinality(r.slots))
             outputs1 == IF ReqsHas(r, kRecordId)
                         THEN SlotsSet(outputs0, kRecordId, innerIdSlot) ELSE outputs0
             outputs == IF ReqsHas(r, kResult)
                        THEN SlotsSet(outputs1, kResult, innerResultSlot) ELSE outputs1
             join == Stage(op, <<outer.stage, inner.stage>>, {},
                           [outerCond |-> <<SlotsGet(outer.out, kRecordId)>>,
                            outerProject |-> <<SlotsGet(outer.out, kResult)>>,
                            innerCond |-> <<innerIdSlot>>,
                            innerProject |-> <<innerResultSlot>>])
             more == BuildChildren(n.kids, childReqs, st1, path, 3)
         IN IF ~outer.ok THEN outer
            ELSE IF ~SlotsHas(outer.out, kRecordId) \/ ~SlotsHas(outer.out, kResult)
            THEN Fail(outer.st, "invariant: PlanStageSlots::get: slot not bound")
            ELSE IF ~inner.ok THEN inner
            ELSE IF ~SlotsHas(inner.out, kRecordId) \/ ~SlotsHas(inner.out, kResult)
            THEN Fail(inner.st, "tassert: inner outputs lack recordId or result")
            ELSE IF ~more.ok THEN Fail(more.st, more.err)
            ELSE IF \E i \in 1..Len(more.outs) :
                        ~SlotsHas(more.outs[i], kRecordId) \/ ~SlotsHas(more.outs[i], kResult)
            THEN Fail(more.st, "tassert: outputs lack recordId or result")
            ELSE Ok(FoldJoins(op, join, more.stages, more.outs,
                              <<innerIdSlot>>, <<innerResultSlot>>),
                    outputs, more.st)

buildAndHash(n, r, st, path) == BuildAnd("hashjoin", n, r, st, path)

buildAndSorted(n, r, st, path) == BuildAnd("mergejoin", n, r, st, path)

\* The body of the loop of buildSortMerge for the children i.. : the index key
\* bitset of each child is derived from the key pattern of its first index scan.
RECURSIVE SortMergeChildren(_, _, _, _, _)
\* A variant of the loop body that takes a part's position in the whole key pattern
\* for its position among the slots.
SortMergeChildrenByKeyPatternPosition(n, childReqs, st, path, i) ==
    IF i > Len(n.kids)
    THEN [ok |-> TRUE, err |-> "", stages |-> <<>>, keys |-> <<>>, vals |-> <<>>, st |-> st]
    ELSE LET bad(err, s) ==
                 [ok |-> FALSE, err |-> err, stages |-> <<>>, keys |-> <<>>,
                  vals |-> <<>>, st |-> s]
             ixn == getNodeByType(n.kids[i], "IXSCAN")
             kp == keyPatternOf(ixn[1])
             paths == {sortPattern(n)[k].path : k \in 1..Len(sortPattern(n))}
             matched == SelectSeq(kp, LAMBDA f : f \in paths)
             bits == {k - 1 : k \in {j \in 1..Len(kp) : kp[j] \in paths}}
             positionOf(f) == (CHOOSE k \in 1..Len(kp) : kp[k] = f) - 1
             c == build(n.kids[i], ReqsSetBitset(childReqs, SomeBitset(bits)), st,
                        Append(path, i))
             indexKeys == c.out.iks.v
             inputKeysForChild ==
                 [k \in 1..Len(sortPattern(n)) |->
                     indexKeys[positionOf(sortPattern(n)[k].path) + 1]]
         IN IF ixn = <<>> THEN bad("tassert 5184300", st)
            ELSE IF ~c.ok THEN bad(c.err, c.st)
            ELSE IF dedup(n) /\ ~SlotsHas(c.out, kRecordId) THEN bad("tassert 5184301", c.st)
            ELSE IF ~c.out.iks.has THEN bad("tassert 5184302", c.st)
            ELSE IF \E f \in paths : f \notin Range(matched) THEN bad("tassert 5184303", c.st)
            ELSE IF \E f \in paths : positionOf(f) >= Len(indexKeys)
            THEN bad("tassert 5184304", c.st)
            ELSE IF ~ForEachSlotOk(c.out, childReqs)
            THEN bad("invariant: forEachSlot: slot not bound", c.st)
            ELSE LET rest == SortMergeChildren(n, childReqs, c.st, path, i + 1)
                 IN [rest EXCEPT !.stages = <<c.stage>> \o @,
                                 !.keys = <<inputKeysForChild>> \o @,
                                 !.vals = <<ForEachSlot(c.out, childReqs)>> \o @]

SortMergeChildren(n, childReqs, st, path, i) ==
    IF i > Len(n.kids)
    THEN [ok |-> TRUE, err |-> "", stages |-> <<>>, keys |-> <<>>, vals |-> <<>>, st |-> st]
    ELSE LET bad(err, s) ==
                 [ok |-> FALSE, err |-> err, stages |-> <<>>, keys |-> <<>>,
                  vals |-> <<>>, st |-> s]
             ixn == getNodeByType(n.kids[i], "IXSCAN")
             kp == keyPatternOf(ixn[1])
             paths == {sortPattern(n)[k].path : k \in 1..Len(sortPattern(n))}
             matched == SelectSeq(kp, LAMBDA f : f \in paths)
             bits == {k - 1 : k \in {j \in 1..Len(kp) : kp[j] \in paths}}
             \* indexKeyPositionMap: emplace keeps the first position of a path
             positionOf(f) == (CHOOSE k \in 1..Len(matched) :
                                   matched[k] = f /\ \A j \in 1..(k - 1) : matched[j] # f) - 1
             c == build(n.kids[i], ReqsSetBitset(childReqs, SomeBitset(bits)), st,
                        Append(path, i))
             indexKeys == c.out.iks.v
             inputKeysForChild ==
                 [k \in 1..Len(sortPattern(n)) |->
                     indexKeys[positionOf(sortPattern(n)[k].path) + 1]]
         IN IF ixn = <<>> THEN bad("tassert 5184300", st)
            ELSE IF ~c.ok THEN bad(c.err, c.st)
            ELSE IF dedup(n) /\ ~SlotsHas(c.out, kRecordId) THEN bad("tassert 5184301", c.st)
            ELSE IF ~c.out.iks.has THEN bad("tassert 5184302", c.st)
            ELSE IF \E f \in paths : f \notin Range(matched) THEN bad("tassert 5184303", c.st)
            ELSE IF \E f \in paths : positionOf(f) >= Len(indexKeys)
            THEN bad("tassert 5184304", c.st)
            ELSE IF ~ForEachSlotOk(c.out, childReqs)
            THEN bad("invariant: forEachSlot: slot not bound", c.st)
            ELSE LET rest == SortMergeChildren(n, childReqs, c.st, path, i + 1)
                 IN [rest EXCEPT !.stages = <<c.stage>> \o @,
                                 !.keys = <<inputKeysForChild>> \o @,
                                 !.vals = <<ForEachSlot(c.out, childReqs)>> \o @]

buildSortMerge(n, r, st, path) ==
    IF r.ikb.has THEN Fail(st, "invariant: buildSortMerge: index keys requested")
    ELSE LET childReqs == ReqsSetIf(r, kRecordId, dedup(n))
             cs == SortMergeChildren(n, childReqs, st, path, 1)
             outputs == SlotsFromReqs(childReqs, cs.st.gen)
             outputVals == ForEachSlot(outputs, childReqs)
             merge == Stage("smerge", cs.stages, Range(outputVals),
                            [inputKeys |-> cs.keys,
                             direction |-> [k \in 1..Len(sortPattern(n)) |->
                                               sortPattern(n)[k].asc],
                             inputVals |-> cs.vals, outputVals |-> outputVals])
         IN IF ~cs.ok THEN Fail(cs.st, cs.err)
            ELSE Ok(IF dedup(n)
                    THEN Stage("unique", <<merge>>, {},
                               [keys |-> <<SlotsGet(outputs, kRecordId)>>])
                    ELSE merge,
                    outputs, Generate(cs.st, Cardinality(childReqs.slots)))

-----------------------------------------------------------------------------
(* The tailable union, the shard filter and the dispatcher.                 *)

\* A makeUnionBranch whose requirements do not carry the is-building-tailable-union
\* flag.
makeUnionBranchUnflagged(n, r, st, path, isTailableCollScanResumeBranch) ==
    build(n, [r EXCEPT !.resume = isTailableCollScanResumeBranch, !.union = FALSE],
          st, path)

\* makeUnionBranch: the branch built from the same node with the resume flag set
\* as given, and the slots of the names of 'r' it returned.
makeUnionBranch(n, r, st, path, isTailableCollScanResumeBranch) ==
    build(n, [r EXCEPT !.resume = isTailableCollScanResumeBranch], st, path)

\* A variant of makeUnionForTailableCollScan whose anchor gate lacks the negation.
makeUnionForTailableCollScanAnchorUngated(n, r, st, path) ==
    IF r.ikb.has THEN Fail(st, "invariant: makeUnionForTailableCollScan: index keys requested")
    ELSE IF EnvHas(st, "resumeRecordId") THEN Fail(st, "uassert: slot already registered")
    ELSE LET st0 == [registerSlot(st, "resumeRecordId") EXCEPT !.sites = Append(@, path)]
             resumeRecordIdSlot == st0.env["resumeRecordId"]
             anchor == makeUnionBranch(n, r, st0, path, FALSE)
             anchorBranch == Stage("cfilter", <<anchor.stage>>, {},
                                   [expr |-> <<"exists", resumeRecordIdSlot>>])
             resume == makeUnionBranch(n, r, anchor.st, path, TRUE)
             resumeBranch == Stage("cfilter", <<makeLimitSkip(resume.stage, None, 1)>>, {},
                                   [expr |-> <<"exists", resumeRecordIdSlot>>])
             branchSlots == <<ForEachSlot(anchor.out, r), ForEachSlot(resume.out, r)>>
             outputs == SlotsFromReqs(r, resume.st.gen)
             unionOutputSlots == ForEachSlot(outputs, r)
         IN IF ~anchor.ok THEN anchor
            ELSE IF ~ForEachSlotOk(anchor.out, r)
            THEN Fail(anchor.st, "invariant: forEachSlot: slot not bound")
            ELSE IF ~resume.ok THEN resume
            ELSE IF ~ForEachSlotOk(resume.out, r)
            THEN Fail(resume.st, "invariant: forEachSlot: slot not bound")
            ELSE Ok(Stage("union", <<anchorBranch, resumeBranch>>, Range(unionOutputSlots),
                          [ins |-> branchSlots, outs |-> unionOutputSlots]),
                    outputs, Generate(resume.st, Cardinality(r.slots)))

\* A variant of makeUnionForTailableCollScan whose resume branch passes one row only.
makeUnionForTailableCollScanLimitOne(n, r, st, path) ==
    IF r.ikb.has THEN Fail(st, "invariant: makeUnionForTailableCollScan: index keys requested")
    ELSE IF EnvHas(st, "resumeRecordId") THEN Fail(st, "uassert: slot already registered")
    ELSE LET st0 == [registerSlot(st, "resumeRecordId") EXCEPT !.sites = Append(@, path)]
             resumeRecordIdSlot == st0.env["resumeRecordId"]
             anchor == makeUnionBranch(n, r, st0, path, FALSE)
             anchorBranch == Stage("cfilter", <<anchor.stage>>, {},
                                   [expr |-> <<"not", "exists", resumeRecordIdSlot>>])
             resume == makeUnionBranch(n, r, anchor.st, path, TRUE)
             resumeBranch == Stage("cfilter", <<makeLimitSkip(resume.stage, 1, None)>>, {},
                                   [expr |-> <<"exists", resumeRecordIdSlot>>])
             branchSlots == <<ForEachSlot(anchor.out, r), ForEachSlot(resume.out, r)>>
             outputs == SlotsFromReqs(r, resume.st.gen)
             unionOutputSlots == ForEachSlot(outputs, r)
         IN IF ~anchor.ok THEN anchor
            ELSE IF ~ForEachSlotOk(anchor.out, r)
            THEN Fail(anchor.st, "invariant: forEachSlot: slot not bound")
            ELSE IF ~resume.ok THEN resume
            ELSE IF ~ForEachSlotOk(resume.out, r)
            THEN Fail(resume.st, "invariant: forEachSlot: slot not bound")
            ELSE Ok(Stage("union", <<anchorBranch, resumeBranch>>, Range(unionOutputSlots),
                          [ins |-> branchSlots, outs |-> unionOutputSlots]),
                    outputs, Generate(resume.st, Cardinality(r.slots)))

makeUnionForTailableCollScan(n, r, st, path) ==
    IF r.ikb.has THEN Fail(st, "invariant: makeUnionForTailableCollScan: index keys requested")
    ELSE IF EnvHas(st, "resumeRecordId") THEN Fail(st, "uassert: slot already registered")
    ELSE LET st0 == [registerSlot(st, "resumeRecordId") EXCEPT !.sites = Append(@, path)]
             resumeRecordIdSlot == st0.env["resumeRecordId"]
             anchor == makeUnionBranch(n, r, st0, path, FALSE)
             anchorBranch == Stage("cfilter", <<anchor.stage>>, {},
                                   [expr |-> <<"not", "exists", resumeRecordIdSlot>>])
             resume == makeUnionBranch(n, r, anchor.st, path, TRUE)
             resumeBranch == Stage("cfilter", <<makeLimitSkip(resume.stage, None, 1)>>, {},
                                   [expr |-> <<"exists", resumeRecordIdSlot>>])
             branchSlots == <<ForEachSlot(anchor.out, r), ForEachSlot(resume.out, r)>>
             outputs == SlotsFromReqs(r, resume.st.gen)
             unionOutputSlots == ForEachSlot(outputs, r)
         IN IF ~anchor.ok THEN anchor
            ELSE IF ~ForEachSlotOk(anchor.out, r)
            THEN Fail(anchor.st, "invariant: forEachSlot: slot not bound")
            ELSE IF ~resume.ok THEN resume
            ELSE IF ~ForEachSlotOk(resume.out, r)
            THEN Fail(resume.st, "invariant: forEachSlot: slot not bound")
            ELSE Ok(Stage("union", <<anchorBranch, resumeBranch>>, Range(unionOutputSlots),
                          [ins |-> branchSlots, outs |-> unionOutputSlots]),
                    outputs, Generate(resume.st, Cardinality(r.slots)))

buildShardFilterGivenShardKeySlot(shardKeySlot, childStage) ==
    Stage("filter", <<childStage>>, {}, [in |-> shardKeySlot, fwd |-> <<>>])

\* buildShardFilterCovered that hands the child's widened slot vector to the parent.
buildShardFilterCoveredNotNarrowed(n, ixKeyPattern, childReqs, st, path) ==
    LET parentIndexKeyReqs == childReqs.ikb
        incl == makeIndexKeyInclusionSet(ixKeyPattern, Range(shardKeyPattern(n)))
        childBits == parentIndexKeyReqs.bits \cup incl.bits
        c == build(n.kids[1], ReqsSetBitset(childReqs, SomeBitset(childBits)), st,
                   Append(path, 1))
        indexKeySlots == c.out.iks.v
        shardKeySlot == c.st.gen + 1
        mkObjStage == Stage("mkbson", <<c.stage>>, {shardKeySlot},
                            [root |-> 0, fields |-> {}, projectFields |-> incl.names,
                             projectVars |-> indexKeySlots])
    IN IF ~c.ok THEN c
       ELSE IF ~c.out.iks.has
       THEN Fail(c.st, "invariant: buildShardFilterCovered: no index key slots")
       ELSE Ok(buildShardFilterGivenShardKeySlot(shardKeySlot, mkObjStage),
               SlotsSetIndexKeySlots(c.out,
                   IF ~parentIndexKeyReqs.has THEN NoVector ELSE SomeVector(indexKeySlots)),
               Generate(c.st, 1))

buildShardFilterCovered(n, ixKeyPattern, childReqs, st, path) ==
    LET parentIndexKeyReqs == childReqs.ikb
        incl == makeIndexKeyInclusionSet(ixKeyPattern, Range(shardKeyPattern(n)))
        childBits == parentIndexKeyReqs.bits \cup incl.bits
        c == build(n.kids[1], ReqsSetBitset(childReqs, SomeBitset(childBits)), st,
                   Append(path, 1))
        indexKeySlots == c.out.iks.v
        shardKeySlot == c.st.gen + 1
        mkObjStage == Stage("mkbson", <<c.stage>>, {shardKeySlot},
                            [root |-> 0, fields |-> {}, projectFields |-> incl.names,
                             projectVars |-> indexKeySlots])
    IN IF ~c.ok THEN c
       ELSE IF ~c.out.iks.has
       THEN Fail(c.st, "invariant: buildShardFilterCovered: no index key slots")
       ELSE Ok(buildShardFilterGivenShardKeySlot(shardKeySlot, mkObjStage),
               SlotsSetIndexKeySlots(c.out,
                   IF ~parentIndexKeyReqs.has THEN NoVector
                   ELSE SomeVector(makeIndexKeyOutputSlotsMatchingParentReqs(
                                       parentIndexKeyReqs.bits, childBits, indexKeySlots))),
               Generate(c.st, 1))

\* A variant of buildShardFilter that reads a key pattern off an index scan only.
buildShardFilterIndexScanOnly(n, r, st, path) ==
    LET childNode == n.kids[1]
        ixKeyPattern == CASE childNode.kind = "IXSCAN" -> keyPatternOf(childNode)
                          [] OTHER -> <<>>
        childReqs == ReqsSetIf(r, kResult, ixKeyPattern = <<>>)
        c == build(childNode, childReqs, st, Append(path, 1))
        k == Len(shardKeyPattern(n))
        fieldSlots == FreshVector(c.st, k)
        shardKeySlot == c.st.gen + k + 1
        finalShardKeySlot == c.st.gen + k + 2
        project == Stage("project", <<c.stage>>, Range(fieldSlots),
                         [expr |-> [i \in 1..k |->
                             <<"shardKeyBinding", SlotsGet(c.out, kResult),
                               shardKeyPattern(n)[i]>>]])
        shardKeyObjStage == Stage("mkbson", <<project>>, {shardKeySlot},
                                  [root |-> 0, fields |-> {},
                                   projectFields |-> shardKeyPattern(n),
                                   projectVars |-> fieldSlots])
        finalShardKeyObjStage ==
            makeProjectStage(shardKeyObjStage, finalShardKeySlot,
                             <<"nothingUnlessAllExist", fieldSlots, shardKeySlot>>)
    IN IF ~ReqsHas(childReqs, kResult)
       THEN buildShardFilterCovered(n, ixKeyPattern, childReqs, st, path)
       ELSE IF ~c.ok THEN c
       ELSE IF ~SlotsHas(c.out, kResult)
       THEN Fail(c.st, "invariant: PlanStageSlots::get: slot not bound")
       ELSE IF k = 0 THEN Fail(c.st, "invariant: buildShardFilter: empty shard key")
       ELSE Ok(buildShardFilterGivenShardKeySlot(finalShardKeySlot, finalShardKeyObjStage),
               c.out, Generate(c.st, k + 2))

buildShardFilter(n, r, st, path) ==
    LET childNode == n.kids[1]
        ixKeyPattern == CASE childNode.kind = "IXSCAN" -> keyPatternOf(childNode)
                          [] childNode.kind = "VIRTUAL_SCAN" -> indexKeyPattern(childNode)
                          [] OTHER -> <<>>
        childReqs == ReqsSetIf(r, kResult, ixKeyPattern = <<>>)
        c == build(childNode, childReqs, st, Append(path, 1))
        k == Len(shardKeyPattern(n))
        fieldSlots == FreshVector(c.st, k)
        shardKeySlot == c.st.gen + k + 1
        finalShardKeySlot == c.st.gen + k + 2
        project == Stage("project", <<c.stage>>, Range(fieldSlots),
                         [expr |-> [i \in 1..k |->
                             <<"shardKeyBinding", SlotsGet(c.out, kResult),
                               shardKeyPattern(n)[i]>>]])
        shardKeyObjStage == Stage("mkbson", <<project>>, {shardKeySlot},
                                  [root |-> 0, fields |-> {},
                                   projectFields |-> shardKeyPattern(n),
                                   projectVars |-> fieldSlots])
        finalShardKeyObjStage ==
            makeProjectStage(shardKeyObjStage, finalShardKeySlot,
                             <<"nothingUnlessAllExist", fieldSlots, shardKeySlot>>)
    IN IF ~ReqsHas(childReqs, kResult)
       THEN buildShardFilterCovered(n, ixKeyPattern, childReqs, st, path)
       ELSE IF ~c.ok THEN c
       ELSE IF ~SlotsHas(c.out, kResult)
       THEN Fail(c.st, "invariant: PlanStageSlots::get: slot not bound")
       ELSE IF k = 0 THEN Fail(c.st, "invariant: buildShardFilter: empty shard key")
       ELSE Ok(buildShardFilterGivenShardKeySlot(finalShardKeySlot, finalShardKeyObjStage),
               c.out, Generate(c.st, k + 2))

\* The node kinds of kStageBuilders.
StageBuilderKinds ==
    {"COLLSCAN", "VIRTUAL_SCAN", "IXSCAN", "FETCH", "LIMIT", "SKIP", "SORT_SIMPLE",
     "SORT_DEFAULT", "SORT_KEY_GENERATOR", "PROJECTION_SIMPLE", "PROJECTION_DEFAULT",
     "PROJECTION_COVERED", "OR", "TEXT_OR", "TEXT_MATCH", "RETURN_KEY", "EOF", "AND_HASH",
     "AND_SORTED", "SORT_MERGE", "SHARDING_FILTER"}

\* std::invoke(kStageBuilders.at(root->getType()), ...)
InvokeStageBuilder(n, r, st, path) ==
    CASE n.kind = "COLLSCAN" -> buildCollScan(n, r, st)
      [] n.kind = "VIRTUAL_SCAN" -> buildVirtualScan(n, r, st)
      [] n.kind = "IXSCAN" -> buildIndexScan(n, r, st)
      [] n.kind = "FETCH" -> buildFetch(n, r, st, path)
      [] n.kind = "LIMIT" -> buildLimit(n, r, st, path)
      [] n.kind = "SKIP" -> buildSkip(n, r, st, path)
      [] n.kind \in {"SORT_SIMPLE", "SORT_DEFAULT"} -> buildSort(n, r, st, path)
      [] n.kind = "SORT_KEY_GENERATOR" -> buildSortKeyGeneraror(n, r, st, path)
      [] n.kind = "PROJECTION_SIMPLE" -> buildProjectionSimple(n, r, st, path)
      [] n.kind = "PROJECTION_DEFAULT" -> buildProjectionDefault(n, r, st, path)
      [] n.kind = "PROJECTION_COVERED" -> buildProjectionCovered(n, r, st, path)
      [] n.kind \in {"OR", "TEXT_OR"} -> buildOr(n, r, st, path)
      [] n.kind = "TEXT_MATCH" -> buildTextMatch(n, r, st, path)
      [] n.kind = "RETURN_KEY" -> buildReturnKey(n, r, st, path)
      [] n.kind = "EOF" -> buildEof(n, r, st)
      [] n.kind = "AND_HASH" -> buildAndHash(n, r, st, path)
      [] n.kind = "AND_SORTED" -> buildAndSorted(n, r, st, path)
      [] n.kind = "SORT_MERGE" -> buildSortMerge(n, r, st, path)
      [] n.kind = "SHARDING_FILTER" -> buildShardFilter(n, r, st, path)

\* A dispatcher that diverts collection scans and limits only.
TailableSplitKindsWithoutSkip == {"COLLSCAN", "LIMIT"}

\* The nodes at which the dispatcher starts the tailable union.
TailableSplitKinds == {"COLLSCAN", "LIMIT", "SKIP"}

\* The record of one call of build(root, reqs): the node it was called for, the
\* is-building-tailable-union flag of the requirements it was called with, the slot
\* ids handed out between its entry and its return, first + 1 .. b.st.gen, and the
\* numbers of calls that had returned at its entry and at its return.
LogAllocation(path, r, entry, b) ==
    [b EXCEPT !.st.alloc = @ \cup {[path |-> path, lo |-> entry.gen, hi |-> b.st.gen,
                                    union |-> r.union,
                                    enter |-> Cardinality(entry.alloc),
                                    seq |-> Cardinality(@)]}]

\* SlotBasedStageBuilder::build(root, reqs)
build(n, r, st, path) ==
    LogAllocation(path, r, st,
        IF n.kind \notin StageBuilderKinds THEN Fail(st, "tassert 4822884")
        ELSE IF n.kind \in TailableSplitKinds /\ st.tailable /\ ~r.union
        THEN makeUnionForTailableCollScan(n, [r EXCEPT !.union = TRUE], st, path)
        ELSE InvokeStageBuilder(n, r, st, path))

-----------------------------------------------------------------------------
(* The builder object: its constructor and the top-level build(root).       *)

\* A prelude that looks for a flagged collection scan anywhere in the solution.
NewBuilderAnyCollScan(solution) ==
    LET RECURSIVE AnyFlagged(_)
        AnyFlagged(n) ==
            \/ n.kind = "COLLSCAN" /\ shouldTrackLatestOplogTimestamp(n)
            \/ \E i \in DOMAIN n.kids : AnyFlagged(n.kids[i])
        vsn == getNodeByType(solution, "VIRTUAL_SCAN")
    IN [shouldTrackLatestOplogTimestamp |-> AnyFlagged(solution),
        shouldProduceRecordIdSlot |-> vsn # <<>> /\ hasRecordId(vsn[1]),
        buildHasStarted |-> FALSE,
        hasOutputs |-> FALSE]

\* SlotBasedStageBuilder::SlotBasedStageBuilder: the flags read off the first
\* collection scan and the first virtual scan of the solution.
NewBuilder(solution) ==
    LET csn == getNodeByType(solution, "COLLSCAN")
        vsn == getNodeByType(solution, "VIRTUAL_SCAN")
    IN [shouldTrackLatestOplogTimestamp |->
            csn # <<>> /\ shouldTrackLatestOplogTimestamp(csn[1]),
        shouldProduceRecordIdSlot |-> vsn # <<>> /\ hasRecordId(vsn[1]),
        buildHasStarted |-> FALSE,
        hasOutputs |-> FALSE]

\* The state of the generators and of the runtime environment after construction.
NewBuildState(isTailable, hasCollator) ==
    [gen |-> makeRuntimeEnvironment(hasCollator).gen,
     env |-> makeRuntimeEnvironment(hasCollator).env,
     sites |-> <<>>, keyOf |-> {}, alloc |-> {}, tailable |-> isTailable,
     frame |-> 0]

\* Top-level requirements that never ask for a record id.
TopReqsWithoutRecordId(d) ==
    ReqsSetIf(ReqsSet(NewReqs, kResult), kOplogTs, d.shouldTrackLatestOplogTimestamp)

\* The requirements of the top-level build(root).
TopReqs(d) ==
    ReqsSetIf(ReqsSetIf(ReqsSet(NewReqs, kResult), kRecordId, d.shouldProduceRecordIdSlot),
              kOplogTs, d.shouldTrackLatestOplogTimestamp)

\* The three invariants that follow the recursive build in build(root).
TopPostconditions(d, out) ==
    /\ SlotsHas(out, kResult)
    /\ (~d.shouldProduceRecordIdSlot \/ SlotsHas(out, kRecordId))
    /\ (~d.shouldTrackLatestOplogTimestamp \/ SlotsHas(out, kOplogTs))

\* What build(root) makes of the recursive build's result b: 'rec' tells whether the
\* recursion returned, 'post' whether the three invariants held.
TopResult(d, b) ==
    [ok |-> b.ok /\ TopPostconditions(d, b.out),
     rec |-> b.ok,
     post |-> b.ok => TopPostconditions(d, b.out),
     err |-> b.err, stage |-> b.stage, out |-> b.out, st |-> b.st]

\* SlotBasedStageBuilder::build(root)
buildTop(solution, d, isTailable, hasCollator) ==
    TopResult(d, build(solution, TopReqs(d), NewBuildState(isTailable, hasCollator), <<>>))

-----------------------------------------------------------------------------
(* The inputs: query solution trees, queries and requirements.              *)

\* The index key pattern {a: 1, b: 1} of the index scans of the solutions.
KeyPatternAB == << <<"a">>, <<"b">> >>

Leaf(kind, flagA, flagB, pat) == Node(kind, <<>>, flagA, flagB, pat, {}, 0)

LeafNodes ==
    {Leaf("COLLSCAN", f, FALSE, <<>>) : f \in BOOLEAN}
    \cup {Leaf("VIRTUAL_SCAN", f, FALSE, <<>>) : f \in BOOLEAN}
    \cup {Leaf("VIRTUAL_SCAN", f, TRUE, KeyPatternAB) : f \in BOOLEAN}
    \cup {Leaf("IXSCAN", f, FALSE, KeyPatternAB) : f \in BOOLEAN}
    \cup {Leaf("EOF", FALSE, FALSE, <<>>), Leaf("DISTINCT_SCAN", FALSE, FALSE, <<>>)}

SortPatterns ==
    {<< [path |-> <<"a">>, asc |-> TRUE], [path |-> <<"b">>, asc |-> FALSE] >>,
     << [path |-> <<"a", "b">>, asc |-> TRUE], [path |-> <<"a", "c">>, asc |-> TRUE] >>}

MergeSortPattern == << [path |-> <<"b">>, asc |-> TRUE], [path |-> <<"a">>, asc |-> TRUE] >>

ShardKeyPatterns == {<< <<"a">> >>, << <<"b">> >>}

\* The nodes with exactly one child, over the child k.
UnaryNodes(k) ==
    {Node("FETCH", <<k>>, f, FALSE, <<>>, {}, 0) : f \in BOOLEAN}
    \cup {Node("LIMIT", <<k>>, FALSE, FALSE, <<>>, {}, 10),
          Node("SKIP", <<k>>, FALSE, FALSE, <<>>, {}, 5),
          Node("SORT_KEY_GENERATOR", <<k>>, FALSE, FALSE, <<>>, {}, 0),
          Node("PROJECTION_SIMPLE", <<k>>, FALSE, FALSE, <<>>, {<<"a">>}, 0),
          Node("PROJECTION_DEFAULT", <<k>>, FALSE, FALSE, <<>>, {<<"a">>}, 0),
          Node("RETURN_KEY", <<k>>, FALSE, FALSE, <<>>, {}, 0)}
    \cup {Node("SORT_DEFAULT", <<k>>, FALSE, FALSE, p, {}, 0) : p \in SortPatterns}
    \cup {Node("PROJECTION_COVERED", <<k>>, FALSE, f, KeyPatternAB, {<<"a">>}, 0) :
              f \in BOOLEAN}
    \cup {Node("TEXT_MATCH", <<k>>, f, FALSE, <<>>, {}, 0) : f \in BOOLEAN}
    \cup {Node("SHARDING_FILTER", <<k>>, FALSE, FALSE, p, {}, 0) : p \in ShardKeyPatterns}

\* The nodes with any number of children, over the children ks.
NaryNodes(ks) ==
    {Node("OR", ks, d, f, <<>>, {}, 0) : d \in BOOLEAN, f \in BOOLEAN}
    \cup {Node("TEXT_OR", ks, FALSE, FALSE, <<>>, {}, 0),
          Node("AND_HASH", ks, FALSE, FALSE, <<>>, {}, 0),
          Node("AND_SORTED", ks, FALSE, FALSE, <<>>, {}, 0)}
    \cup {Node("SORT_MERGE", ks, d, FALSE, MergeSortPattern, {}, 0) : d \in BOOLEAN}

\* The solution trees with exactly k nodes, and the sequences of two or more trees
\* with k nodes in all.
RECURSIVE TreesOfSize(_)
RECURSIVE ForestsOfSize(_)
ForestsOfSize(k) ==
    UNION {{<<t>> \o f : t \in TreesOfSize(j),
                         f \in {<<u>> : u \in TreesOfSize(k - j)} \cup ForestsOfSize(k - j)} :
           j \in 1..(k - 1)}
TreesOfSize(k) ==
    IF k = 1 THEN LeafNodes
    ELSE UNION {UnaryNodes(t) \cup NaryNodes(<<t>>) : t \in TreesOfSize(k - 1)}
         \cup UNION {NaryNodes(f) : f \in ForestsOfSize(k - 1)}

\* t is a solution tree with at most max nodes. (A root is placed over each smaller
\* tree or forest in turn, so that the whole set of trees is never built.)
IsTree(t, max) ==
    \/ t \in LeafNodes
    \/ \E k \in 1..(max - 1) :
          \/ \E c \in TreesOfSize(k) : t \in UnaryNodes(c) \cup NaryNodes(<<c>>)
          \/ \E f \in ForestsOfSize(k) : t \in NaryNodes(f)

Queries == [tailable : BOOLEAN, collator : BOOLEAN]

\* The requirements a translator can be handed: any set of names, any bitset over
\* the two positions of the key pattern, and the tailable flags the dispatcher and
\* the union builder set (the resume flag only inside a union).
AllReqs ==
    {[slots |-> s, ikb |-> b, resume |-> f.resume, union |-> f.union] :
        s \in SUBSET SlotNames,
        b \in {NoBitset} \cup {SomeBitset(x) : x \in (SUBSET {0, 1}) \ {{}}},
        f \in {[union |-> FALSE, resume |-> FALSE], [union |-> TRUE, resume |-> FALSE],
               [union |-> TRUE, resume |-> TRUE]}}

\* The paths and the key patterns that are rehydrated.
FieldNames == {"a", "b"}

RECURSIVE PathsOfLen(_)
PathsOfLen(k) ==
    IF k = 0 THEN {<<>>}
    ELSE {Append(p, f) : p \in PathsOfLen(k - 1), f \in FieldNames}

Paths == UNION {PathsOfLen(k) : k \in 1..MaxPathLen}

RECURSIVE PatternsOfLen(_)
PatternsOfLen(k) ==
    IF k = 0 THEN {<<>>}
    ELSE {Append(kp, p) : kp \in PatternsOfLen(k - 1), p \in Paths}

\* A key pattern names each path once.
KeyPatterns ==
    {kp \in UNION {PatternsOfLen(k) : k \in 1..MaxKeyParts} :
        \A i, j \in 1..Len(kp) : i # j => kp[i] # kp[j]}

\* The slot vectors of a key pattern of n parts: ids in increasing or decreasing order.
SlotVectors(n) == {[i \in 1..n |-> 10 + i], [i \in 1..n |-> 11 + n - i]}

-----------------------------------------------------------------------------
(* The state machine.                                                       *)

NoResult ==
    [ok |-> FALSE, rec |-> FALSE, post |-> TRUE, err |-> "", stage |-> NoStage,
     out |-> EmptySlots, st |-> NewBuildState(FALSE, FALSE)]

NoBuilder ==
    [shouldTrackLatestOplogTimestamp |-> FALSE, shouldProduceRecordIdSlot |-> FALSE,
     buildHasStarted |-> FALSE, hasOutputs |-> FALSE]

\* The value of a runtime slot: Nothing, as resumeRecordId is registered, or a record id.
NothingValue == [tag |-> "Nothing", val |-> 0]
RecordIdValue(i) == [tag |-> "RecordId", val |-> i]

\* Nothing has run: the slot holds what it was registered with.
NoExec == [value |-> NothingValue, writes |-> 0, iter |-> 0, log |-> {}]

NoKeyState == keyPattern = <<>> /\ keySlots = <<>> /\ keyExpr = <<>>

\* The largest resharding UUID of a collection entry of the catalog.
MaxReshardingUUID == 2

\* The namespaces of the catalog, the cluster roles of a node, the wMode of a write
\* concern ("" when the write concern is a number of nodes) and the read concern levels
\* of an operation.
Namespaces == {"db.a", "db.b"}
ClusterRoles == {"None", "ShardServer", "ConfigServer"}
WriteConcernModes == {"", "majority"}
ReadConcernLevels == {"unset", "majority", "local"}

\* A collection entry of the catalog: its resharding fields hold a resharding UUID, or
\* it has none.
CollectionEntries == [reshardingFields : {None} \cup (1..MaxReshardingUUID)]

\* No cleanupReshardCollection command is under study.
NoCommand ==
    [featureFlag |-> FALSE, clusterRole |-> "None", wMode |-> "", readConcern |-> "unset",
     ns |-> "", catalog |-> <<>>, cleaned |-> <<>>, status |-> "none"]

\* The command returns by throwing: the status of the exception.
Throw(c, code) == [c EXCEPT !.status = code]

\* A typedRun that checks the cluster role before the feature flag.
typedRunRoleFirst(c, cleanerThrows) ==
    IF c.clusterRole # "ConfigServer" THEN Throw(c, "IllegalOperation")
    ELSE IF ~c.featureFlag THEN Throw(c, "CommandNotSupported")
    ELSE IF c.wMode # "majority" THEN Throw(c, "InvalidOptions")
    ELSE LET c1 == [c EXCEPT !.readConcern = "local"]
             collEntry == c1.catalog[c1.ns]
         IN IF collEntry.reshardingFields = None THEN [c1 EXCEPT !.status = "OK"]
            ELSE LET c2 == [c1 EXCEPT !.cleaned =
                               Append(@, [ns |-> c1.ns,
                                          reshardingUUID |-> collEntry.reshardingFields])]
                 IN IF cleanerThrows THEN Throw(c2, "CleanerError")
                    ELSE [c2 EXCEPT !.status = "OK"]

\* ConfigsvrCleanupReshardCollectionCommand::Invocation::typedRun. The cleaner is
\* ReshardingCoordinatorCleaner(ns, reshardingUUID).clean(opCtx), which returns or
\* throws; 'cleaned' lists the cleaners that were run.
typedRun(c, cleanerThrows) ==
    IF ~c.featureFlag THEN Throw(c, "CommandNotSupported")
    ELSE IF c.clusterRole # "ConfigServer" THEN Throw(c, "IllegalOperation")
    ELSE IF c.wMode # "majority" THEN Throw(c, "InvalidOptions")
    ELSE LET c1 == [c EXCEPT !.readConcern = "local"]
             collEntry == c1.catalog[c1.ns]
         IN IF collEntry.reshardingFields = None THEN [c1 EXCEPT !.status = "OK"]
            ELSE LET c2 == [c1 EXCEPT !.cleaned =
                               Append(@, [ns |-> c1.ns,
                                          reshardingUUID |-> collEntry.reshardingFields])]
                 IN IF cleanerThrows THEN Throw(c2, "CleanerError")
                    ELSE [c2 EXCEPT !.status = "OK"]

\* No document has been run through the plan.
NoRow == [doc |-> Scalar("Nothing", 0), ran |-> FALSE, keys |-> <<>>, failed |-> FALSE]

\* The well-ordered comparison of two values: Undefined, Null, numbers, objects, arrays,
\* booleans in this order of type, numbers and booleans by their number.
cmp3w(a, b) ==
    LET rank(v) == CASE v.t = "Undefined" -> 1 [] v.t = "Null" -> 2 [] v.t = "Int" -> 3
                     [] v.t = "Object" -> 4 [] v.t = "Array" -> 5 [] v.t = "Boolean" -> 6
                     [] OTHER -> 0
        sign(x, y) == IF x < y THEN 0 - 1 ELSE IF x > y THEN 1 ELSE 0
    IN IF a.t \in {"Nothing", "Fail"} \/ b.t \in {"Nothing", "Fail"} THEN Scalar("Nothing", 0)
       ELSE IF rank(a) # rank(b) THEN Scalar("Int", sign(rank(a), rank(b)))
       ELSE Scalar("Int", sign(a.n, b.n))

\* The value of an expression, given the slots and the local frames.
RECURSIVE EvalExpr(_, _, _)
EvalExpr(e, env, frames) ==
    LET op == e[1]
        arg(i) == EvalExpr(e[i], env, frames)
        nothing == Scalar("Nothing", 0)
        bool(b) == Scalar("Boolean", IF b THEN 1 ELSE 0)
        getField(o, nm) ==
            IF o.t = "Object" /\ \E i \in DOMAIN o.names : o.names[i] = nm
            THEN o.items[CHOOSE i \in DOMAIN o.names : o.names[i] = nm]
            ELSE nothing
        fillEmpty(v, i) == IF v.t = "Nothing" THEN arg(i) ELSE v
        isArray(v) == IF v.t \in {"Nothing", "Fail"} THEN v ELSE bool(v.t = "Array")
        not(v) == IF v.t = "Boolean" THEN bool(v.n = 0)
                  ELSE IF v.t = "Fail" THEN v ELSE nothing
        \* the right operand is evaluated only when the left one is not true
        logicOr(l) == IF l.t = "Fail" \/ (l.t = "Boolean" /\ l.n = 1) THEN l ELSE arg(3)
        arith(a, b) ==
            IF a.t = "Fail" THEN a ELSE IF b.t = "Fail" THEN b
            ELSE IF a.t # "Int" \/ b.t # "Int" THEN nothing
            ELSE CASE op = "add" -> Scalar("Int", a.n + b.n)
                   [] op = "lessEq" -> bool(a.n <= b.n)
                   [] op = "less" -> bool(a.n < b.n)
                   [] op = "greater" -> bool(a.n > b.n)
        if(c) == IF c.t = "Fail" THEN c
                 ELSE IF c.t # "Boolean" THEN nothing
                 ELSE IF c.n = 1 THEN arg(3) ELSE arg(4)
    IN CASE op = "const" -> e[2]
         [] op = "var" -> IF e[2] \in DOMAIN env THEN env[e[2]] ELSE nothing
         [] op = "lvar" -> frames[e[2]]
         [] op = "fail" -> Value("Fail", 0, <<>>, <<e[2]>>)
         [] op = "getField" -> getField(arg(2), arg(3).names[1])
         [] op = "fillEmpty" -> fillEmpty(arg(2), 3)
         [] op = "isArray" -> isArray(arg(2))
         [] op = "not" -> not(arg(2))
         [] op = "logicOr" -> logicOr(arg(2))
         [] op = "cmp3w" -> cmp3w(arg(2), arg(3))
         [] op \in {"add", "lessEq", "less", "greater"} -> arith(arg(2), arg(3))
         [] op = "if" -> if(arg(2))
         [] op = "let" -> EvalExpr(e[4], env, (e[2] :> arg(3)) @@ frames)
         \* only strings have a comparison key of their own
         [] op = "collComparisonKey" -> arg(2)
         [] OTHER -> Scalar("Opaque", 0)

\* The slots of the one row a stage returns for the row of its source: a project binds
\* its expressions, a traverse folds the inner branch over the elements of its input.
RECURSIVE RunStage(_, _)
RECURSIVE FoldElems(_, _, _, _)
FoldElems(stage, outer, elems, k) ==
    IF k = 0 THEN Scalar("Nothing", 0)
    ELSE LET innerRow == RunStage(stage.kids[2], (stage.at.inField :> elems[k]) @@ outer)
             inner == IF stage.at.outFieldInner \in DOMAIN innerRow
                      THEN innerRow[stage.at.outFieldInner] ELSE Scalar("Nothing", 0)
         IN IF k = 1 THEN inner
            ELSE EvalExpr(stage.at.fold,
                          (stage.at.outFieldInner :> inner) @@
                          (stage.at.outField :> FoldElems(stage, outer, elems, k - 1)) @@ outer,
                          <<>>)

RunStage(stage, env) ==
    LET project(below) ==
            IF "slots" \in DOMAIN stage.at
            THEN [s \in DOMAIN below \cup Range(stage.at.slots) |->
                     IF s \in Range(stage.at.slots)
                     THEN EvalExpr(stage.at.expr[CHOOSE i \in DOMAIN stage.at.slots :
                                                     stage.at.slots[i] = s], below, <<>>)
                     ELSE below[s]]
            ELSE ((CHOOSE s \in stage.defs : TRUE) :> EvalExpr(stage.at.expr, below, <<>>))
                 @@ below
        traverse(outer) ==
            LET v == IF stage.at.inField \in DOMAIN outer THEN outer[stage.at.inField]
                     ELSE Scalar("Nothing", 0)
                elems == IF v.t = "Array" THEN v.items ELSE <<v>>
            IN (stage.at.outField :> FoldElems(stage, outer, elems, Len(elems))) @@ outer
    IN CASE stage.op = "project" -> project(RunStage(stage.kids[1], env))
         [] stage.op = "traverse" -> traverse(RunStage(stage.kids[1], env))
         [] stage.op = "limitskip" -> RunStage(stage.kids[1], env)
         [] OTHER -> env

\* An object with the given fields; a field whose value is Nothing is left out.
MakeObject(names, vals) ==
    LET keep == SelectSeq([i \in 1..Len(names) |-> i], LAMBDA i : vals[i].t # "Nothing")
    IN Value("Object", 0, [k \in 1..Len(keep) |-> vals[keep[k]]],
             [k \in 1..Len(keep) |-> names[keep[k]]])

\* The paths of the parts whose arrays are counted, and for a field the values that
\* put an array, or none, at each level of the path below it.
CheckPaths == {<<"a">>, <<"a", "x">>, <<"a", "x", "y">>, <<"b">>, <<"b", "x">>, <<"c">>}

RECURSIVE ValuesAlong(_)
ValuesAlong(below) ==
    {Scalar("Nothing", 0), Scalar("Int", 1), Value("Array", 0, <<Scalar("Int", 1)>>, <<>>)}
    \cup (IF below = <<>> THEN {}
          ELSE {MakeObject(<<Head(below)>>, <<v>>) : v \in ValuesAlong(Tail(below))})

RECURSIVE CheckPatternsOfLen(_)
CheckPatternsOfLen(k) ==
    IF k = 0 THEN {<<>>}
    ELSE {Append(sp, [path |-> f, asc |-> TRUE]) :
             sp \in CheckPatternsOfLen(k - 1), f \in CheckPaths}

\* A sort over a collection scan, and a document to run its plan on.
InitArrays ==
    /\ mode = "arrays"
    /\ \E k \in 1..MaxCheckParts : \E sp \in CheckPatternsOfLen(k) :
           root = Node("SORT_DEFAULT", <<Leaf("COLLSCAN", FALSE, FALSE, <<>>)>>,
                       FALSE, FALSE, sp, {}, 0)
    /\ cq = [tailable |-> FALSE, collator |-> FALSE]
    /\ reqs = ReqsSet(NewReqs, kResult)
    /\ data = NoBuilder
    /\ pc = "ready"
    /\ res = NoResult
    /\ NoKeyState
    /\ exec = NoExec
    /\ \E va \in ValuesAlong(<<"x", "y">>) : \E vb \in ValuesAlong(<<"x">>) :
       \E vc \in ValuesAlong(<<>>) :
           row = [NoRow EXCEPT !.doc = MakeObject(<<"a", "b", "c">>, <<va, vb, vc>>)]
    /\ cmd = NoCommand

\* The values of a field from which the path 'below' is still to be descended: numbers,
\* arrays of numbers at the leaf; numbers, objects and arrays of them above it.
RECURSIVE KeyValues(_)
KeyValues(below) ==
    LET ints == {Scalar("Int", 1), Scalar("Int", 2)}
        elems == IF below = <<>> THEN ints
                 ELSE ints \cup {MakeObject(<<Head(below)>>, <<v>>) :
                                       v \in KeyValues(Tail(below))}
        width == IF Len(below) >= 2 THEN 1 ELSE MaxArrayLen
    IN {Scalar("Nothing", 0)} \cup elems
       \cup {Value("Array", 0, items, <<>>) :
                items \in UNION {[1..k -> elems] : k \in 0..width}}

\* A one-part sort over a collection scan, and a document to run its plan on.
InitKeys ==
    /\ mode = "keys"
    /\ \E fp \in {<<"a">>, <<"a", "x">>, <<"a", "x", "y">>} : \E asc \in BOOLEAN :
           /\ root = Node("SORT_DEFAULT", <<Leaf("COLLSCAN", FALSE, FALSE, <<>>)>>,
                          FALSE, FALSE, <<[path |-> fp, asc |-> asc]>>, {}, 0)
           /\ \E v \in KeyValues(Tail(fp)) : row = [NoRow EXCEPT !.doc = MakeObject(<<"a">>, <<v>>)]
    /\ cq \in {q \in Queries : ~q.tailable}
    /\ reqs = ReqsSet(NewReqs, kResult)
    /\ data = NoBuilder
    /\ pc = "ready"
    /\ res = NoResult
    /\ NoKeyState
    /\ exec = NoExec
    /\ cmd = NoCommand


\* A builder constructed for a solution and a query; build(root) not yet called.
InitTop ==
    /\ mode = "top"
    /\ IsTree(root, MaxNodes)
    /\ cq \in Queries
    /\ reqs = NewReqs
    /\ data = NewBuilder(root)
    /\ pc = "ready"
    /\ res = NoResult
    /\ NoKeyState
    /\ exec = NoExec
    /\ row = NoRow
    /\ cmd = NoCommand

\* A builder about to translate a node under given requirements.
InitRec ==
    /\ mode = "rec"
    /\ IsTree(root, MaxRecNodes)
    /\ cq \in {q \in Queries : ~q.collator}
    /\ reqs \in {r \in AllReqs : r.union => cq.tailable}
    /\ data = NoBuilder
    /\ pc = "ready"
    /\ res = NoResult
    /\ NoKeyState
    /\ exec = NoExec
    /\ row = NoRow
    /\ cmd = NoCommand

\* An index key pattern and its slots about to be rehydrated.
InitKey ==
    /\ mode = "key"
    /\ keyPattern \in KeyPatterns
    /\ keySlots \in SlotVectors(Len(keyPattern))
    /\ keyExpr = <<>>
    /\ root = Leaf("EOF", FALSE, FALSE, <<>>)
    /\ cq = [tailable |-> FALSE, collator |-> FALSE]
    /\ reqs = NewReqs
    /\ data = NoBuilder
    /\ pc = "ready"
    /\ res = NoResult
    /\ exec = NoExec
    /\ row = NoRow
    /\ cmd = NoCommand

\* A builder whose build(root) may be called again and again.
InitCalls ==
    /\ mode = "calls"
    /\ IsTree(root, MaxCallNodes)
    /\ cq \in Queries
    /\ reqs = NewReqs
    /\ data = NewBuilder(root)
    /\ pc = "ready"
    /\ res = NoResult
    /\ NoKeyState
    /\ exec = NoExec
    /\ row = NoRow
    /\ cmd = NoCommand

\* build(root) that never sets _buildHasStarted.
StartBuildUnmarked(d) == d

\* _buildHasStarted = true
StartBuild(d) == [d EXCEPT !.buildHasStarted = TRUE]

\* SlotBasedStageBuilder::build(root), on a builder that has not started a build.
BuildTop ==
    /\ mode \in {"top", "calls", "run"} /\ pc \in {"ready", "done"} /\ ~data.buildHasStarted
    /\ res' = buildTop(root, data, cq.tailable, cq.collator)
    /\ data' = [StartBuild(data) EXCEPT !.hasOutputs = res'.ok]
    /\ reqs' = TopReqs(data)
    /\ pc' = "done"
    /\ UNCHANGED <<root, cq, mode, keyPattern, keySlots, keyExpr, exec, row, cmd>>

\* SlotBasedStageBuilder::build(root), on a builder that has started a build: the
\* invariant of its first line fails and the process is aborted.
BuildAgain ==
    /\ mode = "calls" /\ pc = "done" /\ data.buildHasStarted
    /\ pc' = "aborted"
    /\ UNCHANGED <<root, cq, reqs, mode, res, data, keyPattern, keySlots, keyExpr, exec, row, cmd>>

\* The sort patterns of up to MaxSortParts parts over one- and two-component paths.
SortParts == {[path |-> p, asc |-> d] : p \in PathsOfLen(1) \cup PathsOfLen(2), d \in BOOLEAN}

RECURSIVE SortPatternsOfLen(_)
SortPatternsOfLen(k) ==
    IF k = 0 THEN {<<>>}
    ELSE {Append(sp, part) : sp \in SortPatternsOfLen(k - 1), part \in SortParts}

\* A sort over a collection scan, asked for the result object.
InitSort ==
    /\ mode = "sort"
    /\ \E k \in 1..MaxSortParts : \E sp \in SortPatternsOfLen(k) :
           root = Node("SORT_DEFAULT", <<Leaf("COLLSCAN", FALSE, FALSE, <<>>)>>,
                       FALSE, FALSE, sp, {}, 0)
    /\ cq \in {q \in Queries : ~q.collator /\ ~q.tailable}
    /\ reqs = ReqsSet(NewReqs, kResult)
    /\ data = NoBuilder
    /\ pc = "ready"
    /\ res = NoResult
    /\ NoKeyState
    /\ exec = NoExec
    /\ row = NoRow
    /\ cmd = NoCommand

\* An and-hash node over any number of leaves, one of them without a translator.
AndChildren ==
    {Leaf("COLLSCAN", FALSE, FALSE, <<>>), Leaf("IXSCAN", FALSE, FALSE, KeyPatternAB),
     Leaf("EOF", FALSE, FALSE, <<>>), Leaf("DISTINCT_SCAN", FALSE, FALSE, <<>>)}

InitAnd ==
    /\ mode = "and"
    /\ \E k \in 0..MaxAndChildren : \E ks \in [1..k -> AndChildren] :
           root = Node("AND_HASH", ks, FALSE, FALSE, <<>>, {}, 0)
    /\ cq \in {q \in Queries : ~q.tailable}
    /\ reqs \in {r \in AllReqs : ~r.union}
    /\ data = NoBuilder
    /\ pc = "ready"
    /\ res = NoResult
    /\ NoKeyState
    /\ exec = NoExec
    /\ row = NoRow
    /\ cmd = NoCommand

\* The key patterns of the index scans that are merged: the fields a, b, c, each at
\* most once, in any order.
MergeFields == {<<"a">>, <<"b">>, <<"c">>}
MergeKeyPatterns ==
    {kp \in UNION {[1..k -> MergeFields] : k \in 1..Cardinality(MergeFields)} :
        \A i, j \in DOMAIN kp : i # j => kp[i] # kp[j]}

RECURSIVE MergeSortPatternsOfLen(_)
MergeSortPatternsOfLen(k) ==
    IF k = 0 THEN {<<>>}
    ELSE {Append(sp, [path |-> f, asc |-> TRUE]) :
             sp \in MergeSortPatternsOfLen(k - 1), f \in MergeFields}

\* A sort merge of one or two index scans, each with a key pattern of its own.
InitMerge ==
    /\ mode = "merge"
    /\ \E k \in 1..MaxMergeSortParts : \E sp \in MergeSortPatternsOfLen(k) :
       \E kp1 \in MergeKeyPatterns : \E kp2 \in MergeKeyPatterns \cup {<<>>} : \E d \in BOOLEAN :
           root = Node("SORT_MERGE",
                       IF kp2 = <<>> THEN <<Leaf("IXSCAN", FALSE, FALSE, kp1)>>
                       ELSE <<Leaf("IXSCAN", FALSE, FALSE, kp1),
                              Leaf("IXSCAN", FALSE, FALSE, kp2)>>,
                       d, FALSE, sp, {}, 0)
    /\ cq = [tailable |-> FALSE, collator |-> FALSE]
    /\ reqs \in {r \in AllReqs : r.slots \subseteq {kRecordId} /\ ~r.ikb.has /\ ~r.union}
    /\ data = NoBuilder
    /\ pc = "ready"
    /\ res = NoResult
    /\ NoKeyState
    /\ exec = NoExec
    /\ row = NoRow
    /\ cmd = NoCommand

\* The result b of build(root, reqs), in the shape of the top-level result.
RecResult(b) ==
    [ok |-> b.ok, rec |-> b.ok, post |-> TRUE, err |-> b.err,
     stage |-> b.stage, out |-> b.out, st |-> b.st]

\* SlotBasedStageBuilder::build(root, reqs)
BuildRec ==
    /\ mode \in {"rec", "sort", "merge", "arrays", "keys", "and"} /\ pc = "ready"
    /\ res' = RecResult(build(root, reqs, NewBuildState(cq.tailable, cq.collator), <<>>))
    /\ pc' = "done"
    /\ UNCHANGED <<root, cq, reqs, mode, data, keyPattern, keySlots, keyExpr, exec, row, cmd>>

\* rehydrateIndexKey
Rehydrate ==
    /\ mode = "key" /\ pc = "ready"
    /\ keyExpr' = rehydrateIndexKey(keyPattern, keySlots)
    /\ pc' = "done"
    /\ UNCHANGED <<root, cq, reqs, mode, res, data, keyPattern, keySlots, exec, row, cmd>>

-----------------------------------------------------------------------------
(* The execution of a tailable plan: the union is run again and again, and   *)
(* between the runs the driver puts the last record id seen into the         *)
(* resumeRecordId slot.                                                      *)

\* Every operator of a stage tree.
RECURSIVE StagesOf(_)
StagesOf(s) == {s} \cup UNION {StagesOf(s.kids[i]) : i \in 1..Len(s.kids)}

\* The unions of the tailable rewrite: two branches, each under a constant filter.
TailableUnions ==
    {u \in StagesOf(res.stage) :
        /\ u.op = "union" /\ Len(u.kids) = 2
        /\ u.kids[1].op = "cfilter" /\ u.kids[2].op = "cfilter"}

\* The solutions that are run: a collection scan, alone or under one node or under a
\* limit over a skip.
RunSolutions ==
    LET cs == Leaf("COLLSCAN", FALSE, FALSE, <<>>)
    IN {cs} \cup UnaryNodes(cs)
       \cup {Node("LIMIT", <<k>>, FALSE, FALSE, <<>>, {}, 10) :
                k \in {u \in UnaryNodes(cs) : u.kind = "SKIP"}}

InitRun ==
    /\ mode = "run"
    /\ root \in RunSolutions
    /\ cq \in {q \in Queries : q.tailable}
    /\ reqs = NewReqs
    /\ data = NewBuilder(root)
    /\ pc = "ready"
    /\ res = NoResult
    /\ NoKeyState
    /\ exec = NoExec
    /\ row = NoRow
    /\ cmd = NoCommand

\* The value a slot holds at run time: the environment's resumeRecordId slot holds
\* what the driver wrote last, its other slots hold their objects, and a slot that no
\* operator has written yet holds Nothing.
SlotValue(slot) ==
    IF \E m \in DOMAIN res.st.env : res.st.env[m] = slot
    THEN LET m == CHOOSE name \in DOMAIN res.st.env : res.st.env[name] = slot
         IN IF m = "resumeRecordId" THEN exec.value ELSE [tag |-> m, val |-> 0]
    ELSE NothingValue

\* The constant filters of the two branches: exists(slot) and not(exists(slot)).
exists(slot) == SlotValue(slot).tag # "Nothing"
EvalGate(expr) ==
    IF Head(expr) = "not" THEN expr[2] = "exists" /\ ~exists(expr[3])
    ELSE Head(expr) = "exists" /\ exists(expr[2])

\* The branches of the tailable union whose constant filter lets them run.
OpenBranches ==
    {b \in {"anchor", "resume"} :
        \E u \in TailableUnions : EvalGate(u.kids[IF b = "anchor" THEN 1 ELSE 2].at.expr)}

\* One run of the plan: the union opens the branches whose gate is open.
RunUnion ==
    /\ mode = "run" /\ pc = "done" /\ res.ok /\ TailableUnions # {}
    /\ exec.iter < MaxIterations
    /\ exec' = [exec EXCEPT !.iter = @ + 1,
                            !.log = @ \cup {[open |-> OpenBranches, writes |-> exec.writes]}]
    /\ UNCHANGED <<root, cq, reqs, mode, pc, res, data, keyPattern, keySlots, keyExpr, row, cmd>>

\* The driver resets the resumeRecordId slot with the record id it saw last.
DriverWrite ==
    /\ mode = "run" /\ pc = "done" /\ res.ok
    /\ exec.writes < MaxWrites
    /\ \E v \in 1..MaxRecordId :
          exec' = [exec EXCEPT !.value = RecordIdValue(v), !.writes = @ + 1]
    /\ UNCHANGED <<root, cq, reqs, mode, pc, res, data, keyPattern, keySlots, keyExpr, row, cmd>>

\* A node, its catalog and a cleanupReshardCollection request that is about to run.
InitCleanup ==
    /\ mode = "cleanup"
    /\ \E flag \in BOOLEAN : \E role \in ClusterRoles : \E w \in WriteConcernModes :
       \E rc \in ReadConcernLevels : \E nss \in Namespaces :
       \E catalog \in [Namespaces -> CollectionEntries] :
           cmd = [featureFlag |-> flag, clusterRole |-> role, wMode |-> w,
                  readConcern |-> rc, ns |-> nss, catalog |-> catalog,
                  cleaned |-> <<>>, status |-> "none"]
    /\ root = Leaf("EOF", FALSE, FALSE, <<>>)
    /\ cq = [tailable |-> FALSE, collator |-> FALSE]
    /\ reqs = NewReqs
    /\ data = NoBuilder
    /\ pc = "ready"
    /\ res = NoResult
    /\ NoKeyState
    /\ exec = NoExec
    /\ row = NoRow

\* The command is invoked: typedRun runs to its return or to the exception it throws.
RunCleanup ==
    /\ mode = "cleanup" /\ pc = "ready"
    /\ \E cleanerThrows \in BOOLEAN : cmd' = typedRun(cmd, cleanerThrows)
    /\ pc' = "done"
    /\ UNCHANGED <<root, cq, reqs, mode, res, data, keyPattern, keySlots, keyExpr, exec, row>>

Init ==
    \/ InitTop \/ InitRec \/ InitKey \/ InitCalls \/ InitSort \/ InitRun \/ InitMerge
    \/ InitArrays \/ InitKeys \/ InitAnd \/ InitCleanup
\* The row the sort stage is given for the document: the slots its input binds.
SortedRow(env) ==
    [row EXCEPT !.ran = TRUE,
                !.keys = [i \in DOMAIN res.stage.at.orderBy |->
                             IF res.stage.at.orderBy[i] \in DOMAIN env
                             THEN env[res.stage.at.orderBy[i]] ELSE Scalar("Nothing", 0)],
                !.failed = \E s \in DOMAIN env : env[s].t = "Fail"]

\* The plan is run on the document: the scan binds it to the result slot.
RunSort ==
    /\ mode \in {"arrays", "keys"} /\ pc = "done" /\ res.ok /\ ~row.ran
    /\ row' = SortedRow(RunStage(res.stage.kids[1], (SlotsGet(res.out, kResult) :> row.doc)))
    /\ UNCHANGED <<root, cq, reqs, mode, pc, res, data, keyPattern, keySlots, keyExpr, exec,
                   cmd>>

Next ==
    \/ BuildTop \/ BuildAgain \/ BuildRec \/ Rehydrate \/ RunUnion \/ DriverWrite \/ RunSort
    \/ RunCleanup
Spec == Init /\ [][Next]_vars

SpecTop == InitTop /\ [][BuildTop]_vars
SpecRec == InitRec /\ [][BuildRec]_vars
SpecKey == InitKey /\ [][Rehydrate]_vars
SpecCalls == InitCalls /\ [][BuildTop \/ BuildAgain]_vars
SpecSort == InitSort /\ [][BuildRec]_vars
SpecMerge == InitMerge /\ [][BuildRec]_vars
SpecArrays == InitArrays /\ [][BuildRec \/ RunSort]_vars
SpecKeys == InitKeys /\ [][BuildRec \/ RunSort]_vars
SpecAnd == InitAnd /\ [][BuildRec]_vars
SpecRun == InitRun /\ [][BuildTop \/ RunUnion \/ DriverWrite]_vars
SpecCleanup == InitCleanup /\ [][RunCleanup]_vars

-----------------------------------------------------------------------------
(* Properties of the recursive build.                                       *)

RecDone == mode = "rec" /\ pc = "done"
RecSucceeded == RecDone /\ res.ok
TopDone == mode = "top" /\ pc = "done"

BoundNames(o) == DOMAIN o.slots

\* C1: if build(T, R) succeeds, every named slot requested in R is present in the
\* returned bindings, for every node kind with a translator.
C1_RequestedNamesBound ==
    RecSucceeded => \A name \in reqs.slots : SlotsHas(res.out, name)

\* A virtual scan asked for returnKey succeeds and returns no returnKey.
C1_VirtualScanWithoutReturnKey ==
    /\ RecSucceeded
    /\ root.kind = "VIRTUAL_SCAN"
    /\ reqs.slots = {kReturnKey}
    /\ ~SlotsHas(res.out, kReturnKey)

\* C2 (as stated): if build(T, R) succeeds, the returned bindings hold no name that
\* R did not request, and an index key slot vector only if R carried a bitset.
C2_NoUnrequestedName ==
    RecSucceeded =>
        /\ BoundNames(res.out) \subseteq reqs.slots
        /\ res.out.iks.has => reqs.ikb.has

\* C2 (amended): if build(T, R) succeeds, the names bound beyond those requested in
\* R are among result, recordId and oplogTs: returnKey is bound only when R requested
\* it, and an index key slot vector is returned only when R carried a bitset.
C2_UnrequestedNamesAreScanOutputs ==
    RecSucceeded =>
        /\ BoundNames(res.out) \ reqs.slots \subseteq {kResult, kRecordId, kOplogTs}
        /\ res.out.iks.has => reqs.ikb.has

\* A fetch asked for result alone returns result and recordId.
C2_FetchReturnsRecordId ==
    /\ RecSucceeded
    /\ root.kind = "FETCH"
    /\ reqs.slots = {kResult}
    /\ BoundNames(res.out) = {kResult, kRecordId}

\* C3: every slot id in the bindings returned by a successful build is defined by
\* some operator of the returned physical subtree.
C3_BoundSlotsDefined ==
    (TopDone /\ res.rec) => AllSlotIds(res.out) \subseteq DefinedSlots(res.stage)

\* An and-hash asked for oplogTs returns a slot that no stage of its subtree writes.
C3_AndHashUnwrittenOplogTs ==
    /\ TopDone /\ res.rec
    /\ root.kind = "AND_HASH"
    /\ SlotsHas(res.out, kOplogTs)
    /\ SlotsGet(res.out, kOplogTs) \notin DefinedSlots(res.stage)

\* C4: in the bindings of a successful build the slot ids of the names and of the
\* index key slot vector are pairwise distinct and non-zero.
C4_SlotIdsDistinctNonZero ==
    RecSucceeded =>
        LET o == res.out
        IN /\ \A a, b \in BoundNames(o) : a # b => o.slots[a] # o.slots[b]
           /\ \A i, j \in DOMAIN o.iks.v : i # j => o.iks.v[i] # o.iks.v[j]
           /\ \A a \in BoundNames(o) : \A i \in DOMAIN o.iks.v : o.slots[a] # o.iks.v[i]
           /\ 0 \notin AllSlotIds(o)

\* A return-key node has rebound its child's returnKey slot as result, beside recordId.
C4_ReturnKeyRebound ==
    /\ RecSucceeded
    /\ root.kind = "RETURN_KEY"
    /\ BoundNames(res.out) = {kResult, kRecordId}

-----------------------------------------------------------------------------
(* Properties of index key rehydration.                                     *)

KeyDone == mode = "key" /\ pc = "done"

\* The object the expression e builds, read along the dotted path p: the slot whose
\* value is reached and the part of the path left over below it (slot 0: nothing).
RECURSIVE Extract(_, _)
Extract(e, p) ==
    IF "var" \in DOMAIN e THEN [slot |-> e.var, rest |-> p]
    ELSE IF p = <<>> THEN [slot |-> 0, rest |-> p]
    ELSE LET hits == {k \in DOMAIN e.obj : e.obj[k].name = Head(p)}
         IN IF hits = {} THEN [slot |-> 0, rest |-> p]
            ELSE Extract(e.obj[CHOOSE k \in hits : \A h \in hits : k <= h].val, Tail(p))

\* The position of the shortest path of the pattern that is a prefix of path i
\* (i itself when no strictly shorter prefix is in the pattern).
Dominator(kp, i) ==
    CHOOSE d \in DOMAIN kp :
        /\ IsPrefix(kp[d], kp[i])
        /\ \A e \in DOMAIN kp : IsPrefix(kp[e], kp[i]) => Len(kp[d]) <= Len(kp[e])

\* C5: extracting pattern path i from the rehydrated object returns the value of
\* slot i, or of the slot of the shortest prefix of path i in the pattern, wherever
\* that prefix stands in the pattern.
C5_RehydrationRoundTrip ==
    KeyDone =>
        \A i \in DOMAIN keyPattern :
            LET d == Dominator(keyPattern, i)
                x == Extract(keyExpr, keyPattern[i])
            IN /\ x.slot = keySlots[d]
               /\ x.rest = SubSeq(keyPattern[i], Len(keyPattern[d]) + 1, Len(keyPattern[i]))

\* A pattern of three paths whose second path is dropped for a prefix that comes
\* after it, and whose third path keeps its own slot.
C5_PrefixAfterLongerPath ==
    /\ KeyDone
    /\ Len(keyPattern) = 3
    /\ Dominator(keyPattern, 2) = 3
    /\ Dominator(keyPattern, 1) = 1
    /\ Extract(keyExpr, keyPattern[2]).slot = keySlots[3]
    /\ Extract(keyExpr, keyPattern[1]).slot = keySlots[1]

-----------------------------------------------------------------------------
(* Properties of the tailable union, the shard filter and the top-level build. *)

\* The paths of the collection scan, limit and skip nodes of n that lie below no
\* other such node.
RECURSIVE OutermostSplitNodes(_, _)
OutermostSplitNodes(n, path) ==
    IF n.kind \in {"COLLSCAN", "LIMIT", "SKIP"} THEN {path}
    ELSE UNION {OutermostSplitNodes(n.kids[i], Append(path, i)) : i \in DOMAIN n.kids}

TailableBuilt == TopDone /\ cq.tailable /\ res.rec

\* C6 (as stated): a build for a tailable query applies the tailable union rewrite
\* exactly once.
C6_RewriteAppliedExactlyOnce ==
    TailableBuilt => Len(res.st.sites) = 1

\* C6 (amended): a successful build for a tailable query applies the rewrite at the
\* outermost collection scan, limit or skip nodes and nowhere else: not at all when
\* the solution has no such node, never below another rewrite, and at most once.
C6_RewriteAtOutermostOnly ==
    TailableBuilt =>
        /\ Range(res.st.sites) = OutermostSplitNodes(root, <<>>)
        /\ Len(res.st.sites) <= 1

\* A limit over a skip over a collection scan is rewritten once, at the limit.
C6_RewrittenAtLimit ==
    /\ TailableBuilt
    /\ root.kind = "LIMIT"
    /\ root.kids[1].kind = "SKIP"
    /\ res.st.sites = << <<>> >>
    /\ CountOps(res.stage, "union") = 1

\* The key positions whose value the slot holds, as recorded by the scans.
KeyPositions(st, slot) == {k.pos : k \in {x \in st.keyOf : x.slot = slot}}

\* The slot vector holds, in order, the key components of the bitset.
AlignedWith(out, st, bits) ==
    /\ out.iks.has
    /\ Len(out.iks.v) = Cardinality(bits)
    /\ \A i \in DOMAIN out.iks.v :
           KeyPositions(st, out.iks.v[i]) = {BitsInOrder(bits)[i]}

CoveredShardFilterBuilt ==
    /\ RecSucceeded
    /\ root.kind = "SHARDING_FILTER"
    /\ root.kids[1].kind \in {"IXSCAN", "VIRTUAL_SCAN"}
    /\ root.kids[1].pat # <<>>
    /\ ~ReqsHas(reqs, kResult)

\* What the child returns under the parent's own requirements.
ChildBuiltDirectly ==
    build(root.kids[1], reqs, NewBuildState(cq.tailable, cq.collator), <<1>>)

\* C7: under the covered shard filter path the slot vector returned to the parent
\* holds, position for position of the parent's bitset, the key component the child
\* returns when built with that bitset directly; without a parent bitset no vector
\* is returned.
C7_CoveredVectorMatchesParentBitset ==
    CoveredShardFilterBuilt =>
        IF reqs.ikb.has
        THEN /\ AlignedWith(res.out, res.st, reqs.ikb.bits)
             /\ LET d == ChildBuiltDirectly
                IN d.ok =>
                     /\ Len(d.out.iks.v) = Len(res.out.iks.v)
                     /\ \A i \in DOMAIN d.out.iks.v :
                            KeyPositions(d.st, d.out.iks.v[i])
                                = KeyPositions(res.st, res.out.iks.v[i])
        ELSE ~res.out.iks.has

\* The parent asked for key b alone and the shard key a widened the child's bitset.
C7_WidenedThenNarrowed ==
    /\ CoveredShardFilterBuilt
    /\ reqs.ikb = SomeBitset({1})
    /\ shardKeyPattern(root) = << <<"a">> >>
    /\ Len(res.out.iks.v) = 1
    /\ ChildBuiltDirectly.ok
    /\ Cardinality(res.st.keyOf) = 2

\* C8: a translator that is passed an index key bitset and succeeds returns a slot
\* vector with one slot per set bit, the i-th slot holding the key component of the
\* i-th set bit.
C8_VectorAlignedWithBitset ==
    (RecSucceeded /\ reqs.ikb.has) => AlignedWith(res.out, res.st, reqs.ikb.bits)

\* A virtual scan asked for result and an index key bitset returns no vector.
C8_VirtualScanWithoutVector ==
    /\ RecSucceeded
    /\ root.kind = "VIRTUAL_SCAN"
    /\ reqs.slots = {kResult}
    /\ reqs.ikb = SomeBitset({0})
    /\ ~res.out.iks.has

RECURSIVE ContainsFlaggedCollScan(_)
ContainsFlaggedCollScan(n) ==
    \/ n.kind = "COLLSCAN" /\ shouldTrackLatestOplogTimestamp(n)
    \/ \E i \in DOMAIN n.kids : ContainsFlaggedCollScan(n.kids[i])

\* The collection scans of n in pre-order.
RECURSIVE CollScansInPreOrder(_)
RECURSIVE CollScansOfKids(_, _)
CollScansOfKids(kids, i) ==
    IF i > Len(kids) THEN <<>>
    ELSE CollScansInPreOrder(kids[i]) \o CollScansOfKids(kids, i + 1)
CollScansInPreOrder(n) ==
    IF n.kind = "COLLSCAN" THEN <<n>> ELSE CollScansOfKids(n.kids, 1)

FirstCollScanFlagged(n) ==
    LET scans == CollScansInPreOrder(n)
    IN scans # <<>> /\ shouldTrackLatestOplogTimestamp(scans[1])

C10_PostconditionsHold ==
    (TopDone /\ res.rec) =>
        /\ res.post
        /\ SlotsHas(res.out, kResult)
        /\ data.shouldProduceRecordIdSlot => SlotsHas(res.out, kRecordId)
        /\ data.shouldTrackLatestOplogTimestamp => SlotsHas(res.out, kOplogTs)

\* A build over a virtual scan below another node with the record id flag set.
C10_RecordIdFlagSet ==
    /\ TopDone /\ res.rec
    /\ data.shouldProduceRecordIdSlot
    /\ root.kind # "VIRTUAL_SCAN"
    /\ SlotsHas(res.out, kRecordId)

-----------------------------------------------------------------------------
(* Properties of repeated calls.                                            *)

\* C11: the first call of build(root) marks the build as started, and every call on
\* a builder that has started a build is rejected and builds nothing, whether the
\* first call succeeded or failed.
C11_SingleUse ==
    [][IF data.buildHasStarted
       THEN pc' = "aborted" /\ res' = res /\ data' = data
       ELSE data'.buildHasStarted /\ pc' = "done"]_vars

\* A second call was rejected after a first call that failed.
C11_RejectedAfterFailure ==
    /\ mode = "calls"
    /\ pc = "aborted"
    /\ ~res.ok
    /\ ~data.hasOutputs
    /\ data.buildHasStarted

\* The top-level field names of the parts of a sort pattern are pairwise different.
TopLevelFieldsDistinct(pattern) ==
    \A i, j \in 1..Len(pattern) : i # j => pattern[i].path[1] # pattern[j].path[1]

SortDone == mode = "sort" /\ pc = "done" /\ res.ok /\ res.stage.op = "sort"

\* The project operators of a stage tree that compute the given kind of expression.
RECURSIVE ProjectsOf(_, _)
ProjectsOf(s, fn) ==
    (IF s.op = "project" /\ s.at.expr = <<fn, SlotsGet(res.out, kResult)>> THEN {s} ELSE {})
    \cup UNION {ProjectsOf(s.kids[i], fn) : i \in 1..Len(s.kids)}

\* C12: buildSort takes the fast regime, one sort-key slot per part of the pattern with
\* the directions of the parts, exactly when the top-level field names of the parts are
\* pairwise different; otherwise it takes the slow regime, whose single sort-key slot
\* is written by one generateSortKey projection of the result object.
C12_SortRegime ==
    SortDone =>
        LET pattern == sortPattern(root)
            orderBy == res.stage.at.orderBy
            keyProjects == ProjectsOf(res.stage, "generateSortKey")
        IN IF TopLevelFieldsDistinct(pattern)
           THEN /\ Len(orderBy) = Len(pattern)
                /\ Cardinality(Range(orderBy)) = Len(pattern)
                /\ res.stage.at.direction = [i \in 1..Len(pattern) |-> pattern[i].asc]
                /\ keyProjects = {}
                /\ Range(orderBy) \subseteq DefinedSlots(res.stage)
           ELSE /\ Len(orderBy) = 1
                /\ res.stage.at.direction = <<TRUE>>
                /\ Cardinality(keyProjects) = 1
                /\ \A s \in keyProjects : s.defs = {orderBy[1]}

\* A pattern whose first and last parts share a top-level field, with another field
\* between them, was sorted in the slow regime.
C12_SlowOnSeparatedDuplicate ==
    /\ SortDone
    /\ Len(sortPattern(root)) = 3
    /\ sortPattern(root)[1].path[1] = sortPattern(root)[3].path[1]
    /\ sortPattern(root)[2].path[1] # sortPattern(root)[1].path[1]
    /\ Len(res.stage.at.orderBy) = 1

\* Every node of a solution tree.
RECURSIVE NodesOf(_)
NodesOf(n) == {n} \cup UNION {NodesOf(n.kids[i]) : i \in 1..Len(n.kids)}

\* Nodes whose translation fails whatever is asked of them: a kind with no translator,
\* the sort key generator, and a text match whose index was not found (an assertion).
AlwaysFails(n) ==
    \/ n.kind \notin StageBuilderKinds
    \/ n.kind = "SORT_KEY_GENERATOR"
    \/ n.kind = "TEXT_MATCH" /\ ~ftsIndexFound(n)

\* C13: a failure of any translator reached during a build fails build(root): no
\* physical tree comes back, partial or whole, and the builder's outputs stay unset; a
\* tree and outputs come back only from a build in which no translator failed.
C13_FailurePropagates ==
    TopDone =>
        /\ (\E n \in NodesOf(root) : AlwaysFails(n)) => ~res.ok
        /\ ~res.ok => /\ res.stage = NoStage
                      /\ res.out = EmptySlots
                      /\ ~data.hasOutputs
                      /\ res.err # ""
        /\ res.ok => res.stage # NoStage /\ data.hasOutputs /\ res.err = ""

\* A node without a translator two levels below the root failed the whole build.
C13_GrandchildWithoutTranslator ==
    /\ TopDone
    /\ root.kind = "FETCH"
    /\ root.kids[1].kind = "LIMIT"
    /\ root.kids[1].kids[1].kind = "DISTINCT_SCAN"
    /\ ~res.ok /\ res.err = "tassert 4822884"
    /\ res.stage = NoStage /\ ~data.hasOutputs

\* The calls of build(root, reqs) made during the build, and for a call e the calls
\* made within it: those for e's node or a node below it, between e's entry and return.
Invocations == res.st.alloc
Within(e, f) == f # e /\ IsPrefix(e.path, f.path) /\ e.lo <= f.lo /\ f.hi <= e.hi

\* The slot ids handed out while the children of call e were translated, and the ids
\* e's translator took for its own operators and outputs.
ChildIds(e) == UNION {(f.lo + 1)..f.hi : f \in {g \in Invocations : Within(e, g)}}
OwnIds(e) == ((e.lo + 1)..e.hi) \ ChildIds(e)

\* C14: in every build, the slot ids a translator allocates for its own operators and
\* outputs are smaller than the slot ids allocated while its children are translated.
C14_OwnIdsBeforeChildIds ==
    (TopDone /\ res.ok) =>
        \A e \in Invocations : \A x \in OwnIds(e) : \A y \in ChildIds(e) : x < y

\* The node of the solution at a path from the root.
RECURSIVE NodeAt(_, _)
NodeAt(n, path) == IF path = <<>> THEN n ELSE NodeAt(n.kids[Head(path)], Tail(path))

\* The slot ids handed out within call e while its children from the third on were
\* translated.
LaterChildIds(e) ==
    UNION {(f.lo + 1)..f.hi :
             f \in {g \in Invocations : /\ Within(e, g)
                                       /\ Len(g.path) > Len(e.path)
                                       /\ g.path[Len(e.path) + 1] >= 3}}

\* C14 as the code has it: a translator's own slot ids are larger than those allocated
\* while its children were translated, with two exceptions: the resumeRecordId slot,
\* which the tailable union registers before it translates its two branches, and the
\* output slots of an and-hash or and-sorted node, which are taken after its second
\* child and before its third.
C14_OwnIdsAfterChildIds ==
    (TopDone /\ res.ok) =>
        \A e \in Invocations : \A x \in OwnIds(e) : \A y \in ChildIds(e) :
            \/ x > y
            \/ /\ e.path \in Range(res.st.sites)
               /\ x = e.lo + 1
               /\ "resumeRecordId" \in DOMAIN res.st.env
               /\ x = res.st.env["resumeRecordId"]
            \/ /\ NodeAt(root, e.path).kind \in {"AND_HASH", "AND_SORTED"}
               /\ y \in LaterChildIds(e)
               /\ \A z \in ChildIds(e) \ LaterChildIds(e) : x > z

\* A fetch over a collection scan took its own slots after those of the scan.
C14_FetchAfterScan ==
    /\ TopDone /\ res.ok /\ ~cq.tailable
    /\ root.kind = "FETCH" /\ root.kids[1].kind = "COLLSCAN"
    /\ \E e \in Invocations :
          /\ e.path = <<>>
          /\ OwnIds(e) # {} /\ ChildIds(e) # {}
          /\ \A x \in OwnIds(e) : \A y \in ChildIds(e) : x > y

TailableSucceeded == TopDone /\ res.ok /\ Len(res.st.sites) > 0

\* The gate of the resume branch: the constant filter exists(resumeRecordId).
ResumeGated(u) ==
    /\ "resumeRecordId" \in DOMAIN res.st.env
    /\ u.kids[2].at.expr = <<"exists", res.st.env["resumeRecordId"]>>
    /\ Len(u.kids[2].kids) = 1
    /\ u.kids[2].kids[1].op = "limitskip"

RECURSIVE ExpectedLimitSkips(_)
ExpectedLimitSkips(n) ==
    (IF n.kind \in {"LIMIT", "SKIP"} THEN 1 ELSE 0)
    - (IF n.kind = "LIMIT" /\ n.kids[1].kind = "SKIP" THEN 1 ELSE 0)
    + SeqSum([i \in 1..Len(n.kids) |-> ExpectedLimitSkips(n.kids[i])])

\* A limit-skip operator that carries the limit of a limit node or the skip of a skip
\* node of the solution (the seek of a fetch, the traversal of a sort key and the
\* wrapper of the resume branch carry neither).
IsNodeLimitSkip(s) ==
    /\ s.op = "limitskip"
    /\ \E n \in NodesOf(root) : \/ (n.kind = "LIMIT" /\ s.at.limit = limitOf(n))
                                 \/ (n.kind = "SKIP" /\ s.at.skip = skipOf(n))

RECURSIVE CountNodeLimitSkips(_)
CountNodeLimitSkips(s) ==
    (IF IsNodeLimitSkip(s) THEN 1 ELSE 0)
    + SeqSum([i \in 1..Len(s.kids) |-> CountNodeLimitSkips(s.kids[i])])

\* The operators of a stage tree without the limit-skip operators of limit and skip
\* nodes and without slot ids.
RECURSIVE ShapeWithoutLimits(_)
ShapeWithoutLimits(s) ==
    IF IsNodeLimitSkip(s) THEN ShapeWithoutLimits(s.kids[1])
    ELSE <<s.op, [i \in 1..Len(s.kids) |-> ShapeWithoutLimits(s.kids[i])]>>

AnchorSubtree(u) == u.kids[1].kids[1]
ResumeSubtree(u) == u.kids[2].kids[1].kids[1]

\* C16: in the tailable union, every limit and skip node of the wrapped subtree, at
\* any depth and fused or not, emits its limit-skip operator in the anchor branch and
\* none in the resume branch; apart from that the two branches are the translation of
\* the same subtree under the same requirements.
C16_LimitsInAnchorBranchOnly ==
    TailableSucceeded =>
        /\ Len(res.st.sites) = 1
        /\ \A u \in TailableUnions :
              LET wrapped == NodeAt(root, res.st.sites[1])
              IN /\ CountNodeLimitSkips(AnchorSubtree(u)) = ExpectedLimitSkips(wrapped)
                 /\ CountNodeLimitSkips(ResumeSubtree(u)) = 0
                 /\ ShapeWithoutLimits(AnchorSubtree(u)) = ShapeWithoutLimits(ResumeSubtree(u))
                 /\ Len(u.at.ins[1]) = Len(u.at.ins[2])

\* A skip over a limit, not fused, gave two operators in the anchor branch and none
\* in the resume branch.
C16_SkipOverLimit ==
    /\ TailableSucceeded
    /\ root.kind = "SKIP" /\ root.kids[1].kind = "LIMIT"
    /\ \E u \in TailableUnions :
          /\ CountNodeLimitSkips(AnchorSubtree(u)) = 2
          /\ CountNodeLimitSkips(ResumeSubtree(u)) = 0

RunBuilt == mode = "run" /\ pc = "done" /\ res.ok

\* The branches that must be open after a number of writes of the driver.
BranchFor(writes) == IF writes = 0 THEN {"anchor"} ELSE {"resume"}

\* C17: in every state of the resumeRecordId slot, Nothing at first and then whatever
\* record id the driver writes between the runs, exactly one of the two gates of the
\* tailable union is open: the anchor branch runs only before the first write and the
\* resume branch only after it.
C17_GatesExclusiveAndExhaustive ==
    RunBuilt =>
        /\ TailableUnions # {}
        /\ Cardinality(OpenBranches) = 1
        /\ OpenBranches = BranchFor(exec.writes)
        /\ \A l \in exec.log : l.open = BranchFor(l.writes)

\* The plan ran before the first write, between the writes and after the last one.
C17_RanBeforeAndAfterWrites ==
    /\ RunBuilt
    /\ exec.writes = MaxWrites
    /\ exec.log = {[open |-> BranchFor(w), writes |-> w] : w \in 0..MaxWrites}

\* The make-object of the covered shard filter path: the operator under the filter.
CoveredMakeObj == res.stage.kids[1]

\* C18: on the covered shard filter path the make-object that builds the shard key
\* pairs each shard-key field with the slot holding that field's key component and
\* uses no other slot, also when the parent's bitset selects key components outside
\* the shard key; the object has every shard-key field.
C18_ShardKeyFieldsPairedWithTheirSlots ==
    CoveredShardFilterBuilt =>
        LET fields == CoveredMakeObj.at.projectFields
            slots == CoveredMakeObj.at.projectVars
            ixKeyPattern == root.kids[1].pat
        IN /\ CoveredMakeObj.op = "mkbson"
           /\ Range(fields) = Range(shardKeyPattern(root))
           /\ Len(slots) = Len(fields)
           /\ \A i \in DOMAIN fields :
                  /\ i \in DOMAIN slots
                  /\ \A p \in KeyPositions(res.st, slots[i]) : ixKeyPattern[p + 1] = fields[i]
                  /\ KeyPositions(res.st, slots[i]) # {}

\* The parent asked for key a alone, the shard key is b, and the make-object was given
\* the slots of a and b for the single field b.
C18_ParentKeyOutsideShardKey ==
    /\ CoveredShardFilterBuilt
    /\ reqs.ikb = SomeBitset({0})
    /\ shardKeyPattern(root) = << <<"b">> >>
    /\ CoveredMakeObj.at.projectFields = << <<"b">> >>
    /\ Len(CoveredMakeObj.at.projectVars) = 2
    /\ KeyPositions(res.st, CoveredMakeObj.at.projectVars[1]) = {0}

ShardFilterDone == RecDone /\ root.kind = "SHARDING_FILTER"

\* The condition of the covered path: an index scan, or a virtual scan with an index
\* key pattern, below the filter, and no result asked of the filter.
CoveredPathCondition ==
    /\ root.kids[1].kind \in {"IXSCAN", "VIRTUAL_SCAN"}
    /\ root.kids[1].pat # <<>>
    /\ ~ReqsHas(reqs, kResult)

\* What each path leaves in the stage tree: the covered path a make-object directly
\* under the filter, fed with index key slots of the child; the fallback path a projection that
\* checks the shard-key bindings, over a make-object, over the bindings taken from the
\* result slot that the child returned.
TookCoveredPath ==
    /\ res.stage.op = "filter"
    /\ res.stage.kids[1].op = "mkbson"
    /\ res.stage.kids[1].at.projectVars # <<>>
    /\ \A i \in DOMAIN res.stage.kids[1].at.projectVars :
           KeyPositions(res.st, res.stage.kids[1].at.projectVars[i]) # {}

TookFallbackPath ==
    /\ res.stage.op = "filter"
    /\ res.stage.kids[1].op = "project"
    /\ Head(res.stage.kids[1].at.expr) = "nothingUnlessAllExist"
    /\ res.stage.kids[1].kids[1].op = "mkbson"
    /\ LET bindings == res.stage.kids[1].kids[1].kids[1]
       IN /\ bindings.op = "project"
          /\ \A i \in DOMAIN bindings.at.expr :
                 /\ bindings.at.expr[i][1] = "shardKeyBinding"
                 /\ bindings.at.expr[i][2] \in DefinedSlots(bindings.kids[1])
                 /\ SlotsHas(res.out, kResult)
                 /\ bindings.at.expr[i][2] = SlotsGet(res.out, kResult)

UnionsOf == {u \in StagesOf(res.stage) : u.op = "union"}

\* The vectors of a union: one per branch, each as long as the output vector, whose
\* slots are distinct, written by the union and newer than every branch slot.
UnionVectorsMatch(u) ==
    /\ Len(u.at.ins) = Len(u.kids)
    /\ Cardinality(Range(u.at.outs)) = Len(u.at.outs)
    /\ Range(u.at.outs) = u.defs
    /\ \A i \in DOMAIN u.at.ins :
           /\ Len(u.at.ins[i]) = Len(u.at.outs)
           /\ \A j \in DOMAIN u.at.ins[i] : \A k \in DOMAIN u.at.outs :
                  u.at.ins[i][j] < u.at.outs[k]

\* Position for position, the output vector 'outs' and the branch vectors 'ins' hold
\* the slot of the same name: 'out' are the bindings the union's translator returned
\* and 'branchOuts' the bindings its branches returned.
SameNamePerPosition(u, names, out, branchOuts) ==
    /\ Len(u.at.outs) = Cardinality(names)
    /\ Len(branchOuts) = Len(u.at.ins)
    /\ \A name \in names :
           \E j \in DOMAIN u.at.outs :
               /\ SlotsHas(out, name) /\ u.at.outs[j] = SlotsGet(out, name)
               /\ \A i \in DOMAIN u.at.ins :
                      /\ SlotsHas(branchOuts[i], name)
                      /\ u.at.ins[i][j] = SlotsGet(branchOuts[i], name)

\* The children of an or / text-or root, translated as buildOr translates them.
OrRootBuilt == TopDone /\ res.ok /\ root.kind \in {"OR", "TEXT_OR"}
OrChildReqs == ReqsSetIf(ReqsSetIf(reqs, kResult, hasFilter(root)), kRecordId, dedup(root))
OrChildren ==
    BuildChildren(root.kids, OrChildReqs, NewBuildState(cq.tailable, cq.collator), <<>>, 1)

\* The two branches of a tailable union at the root, translated as
\* makeUnionForTailableCollScan translates them.
TailableRootBuilt == TopDone /\ res.ok /\ cq.tailable /\ root.kind \in TailableSplitKinds
TailableBranchReqs(isResume) == [reqs EXCEPT !.union = TRUE, !.resume = isResume]
TailableAnchor ==
    build(root, TailableBranchReqs(FALSE),
          [registerSlot(NewBuildState(cq.tailable, cq.collator), "resumeRecordId")
               EXCEPT !.sites = <<<<>>>>],
          <<>>)
TailableResume(anchor) == build(root, TailableBranchReqs(TRUE), anchor.st, <<>>)
TailableBranchOuts(anchor) == <<anchor.out, TailableResume(anchor).out>>

\* C20: every union the builder emits, for an or, a text-or or a tailable scan, has
\* one slot vector per branch, each as long as its freshly allocated output vector,
\* and position j of the output vector and of every branch vector holds the slot of
\* the same name.
C20_UnionVectorsAligned ==
    /\ (TopDone /\ res.ok) => \A u \in UnionsOf : UnionVectorsMatch(u)
    /\ OrRootBuilt =>
          \E u \in UnionsOf :
              /\ u.kids = OrChildren.stages
              /\ SameNamePerPosition(u, OrChildReqs.slots, res.out, OrChildren.outs)
    /\ TailableRootBuilt =>
          /\ res.stage.op = "union"
          /\ res.stage.kids[1].kids[1] = TailableAnchor.stage
          /\ SameNamePerPosition(res.stage, reqs.slots, res.out,
                                 TailableBranchOuts(TailableAnchor))

\* A deduplicating or of two collection scans: result was asked for, result and
\* recordId are asked of the branches, and the union's vectors have both.
C20_DedupOrAddsRecordId ==
    /\ OrRootBuilt
    /\ dedup(root) /\ Len(root.kids) = 2
    /\ reqs.slots = {kResult}
    /\ \E u \in UnionsOf :
          /\ Len(u.at.outs) = 2
          /\ Len(u.at.ins) = 2
          /\ Len(u.at.ins[1]) = 2 /\ Len(u.at.ins[2]) = 2

MergeDone == mode = "merge" /\ pc = "done"

\* The sorted merge of the tree built: under the unique stage when deduplicating.
SortedMergeStage == IF res.stage.op = "unique" THEN res.stage.kids[1] ELSE res.stage

\* Every part of the sort pattern is a component of the key pattern of every child.
AllPartsInEveryKeyPattern ==
    \A i \in DOMAIN root.kids : \A j \in DOMAIN sortPattern(root) :
        sortPattern(root)[j].path \in Range(keyPatternOf(root.kids[i]))

\* C21: in buildSortMerge, for every child and every part j of the sort pattern, the
\* j-th input key slot of that child holds the component of the child's key pattern
\* whose path is the part's, whatever the order of the components; the build fails
\* when a part matches no component of a child's key pattern.
C21_MergeKeysInSortPatternOrder ==
    MergeDone =>
        /\ res.ok <=> AllPartsInEveryKeyPattern
        /\ res.ok =>
              /\ SortedMergeStage.op = "smerge"
              /\ Len(SortedMergeStage.at.inputKeys) = Len(root.kids)
              /\ \A i \in DOMAIN root.kids :
                    /\ Len(SortedMergeStage.at.inputKeys[i]) = Len(sortPattern(root))
                    /\ \A j \in DOMAIN sortPattern(root) :
                          LET slot == SortedMergeStage.at.inputKeys[i][j]
                          IN /\ slot \in DefinedSlots(SortedMergeStage.kids[i])
                             /\ KeyPositions(res.st, slot) # {}
                             /\ \A p \in KeyPositions(res.st, slot) :
                                    keyPatternOf(root.kids[i])[p + 1] = sortPattern(root)[j].path

\* The sort is on (b, a); one child's key pattern is (c, a, b) and the other's (b, a).
C21_DifferentlyOrderedKeyPatterns ==
    /\ MergeDone /\ res.ok
    /\ Len(root.kids) = 2
    /\ keyPatternOf(root.kids[1]) = << <<"c">>, <<"a">>, <<"b">> >>
    /\ keyPatternOf(root.kids[2]) = << <<"b">>, <<"a">> >>
    /\ sortPattern(root) = << [path |-> <<"b">>, asc |-> TRUE], [path |-> <<"a">>, asc |-> TRUE] >>
    /\ KeyPositions(res.st, SortedMergeStage.at.inputKeys[1][1]) = {2}
    /\ KeyPositions(res.st, SortedMergeStage.at.inputKeys[2][1]) = {0}

ArraysRun == mode = "arrays" /\ pc = "done" /\ res.ok /\ row.ran

\* Descending the path from the value through objects meets an array at some level.
RECURSIVE HasArrayAlong(_, _)
HasArrayAlong(v, fp) ==
    /\ fp # <<>>
    /\ v.t = "Object"
    /\ \E i \in DOMAIN v.names :
          /\ v.names[i] = Head(fp)
          /\ (v.items[i].t = "Array" \/ HasArrayAlong(v.items[i], Tail(fp)))

\* The parts of the sort pattern whose path evaluates to an array in the document.
ArrayParts == {j \in DOMAIN sortPattern(root) : HasArrayAlong(row.doc, sortPattern(root)[j].path)}

\* The projections of the plan that can fail with BadValue.
ParallelArraysChecks ==
    {s \in StagesOf(res.stage) :
        /\ s.op = "project" /\ "slots" \notin DOMAIN s.at
        /\ s.at.expr[1] = "logicOr"
        /\ s.at.expr[3] = <<"fail", "BadValue">> \/ s.at.expr[3][3] = <<"fail", "BadValue">>}

\* The plan has one check, and the run fails exactly when two or more paths are arrays.
CheckedForParallelArrays ==
    /\ Cardinality(ParallelArraysChecks) = 1
    /\ row.failed <=> Cardinality(ArrayParts) > 1

\* C22 as stated: the plan of every sort pattern with two or more parts contains a
\* runtime check that fails with BadValue exactly when more than one path of the
\* pattern evaluates to an array, and the plan of a one-part pattern has no check.
C22_CheckForEveryPatternOfTwoParts ==
    ArraysRun =>
        IF Len(sortPattern(root)) >= 2 THEN CheckedForParallelArrays
        ELSE ParallelArraysChecks = {} /\ ~row.failed

\* C22: the plan of a sort pattern with two or more parts whose top-level field names
\* are pairwise different contains one runtime check, in the two-part form of negations
\* or in the sum form for three or more parts, that fails with BadValue exactly when
\* more than one path of the pattern evaluates to an array at some level; a one-part
\* pattern, and a pattern in which two parts share their top-level field, has no check.
C22_CheckWithoutCommonPrefix ==
    ArraysRun =>
        IF Len(sortPattern(root)) >= 2 /\ TopLevelFieldsDistinct(sortPattern(root))
        THEN /\ CheckedForParallelArrays
             /\ \A s \in ParallelArraysChecks :
                    s.at.expr[2][1] = IF Len(sortPattern(root)) = 2 THEN "not" ELSE "lessEq"
        ELSE ParallelArraysChecks = {} /\ ~row.failed

\* Three parts, two of them arrays, one of these below the top-level field: the sum
\* form fails.
C22_TwoArraysOfThreeParts ==
    /\ ArraysRun /\ row.failed
    /\ Len(sortPattern(root)) = 3
    /\ Cardinality(ArrayParts) = 2
    /\ \E j \in ArrayParts :
          /\ Len(sortPattern(root)[j].path) = 3
          /\ ~HasArrayAlong(row.doc, SubSeq(sortPattern(root)[j].path, 1, 2))

KeysRun == mode = "keys" /\ pc = "done" /\ res.ok /\ row.ran

\* The field of an object, Nothing when the value is no object or has no such field.
FieldOf(v, name) ==
    IF v.t = "Object" /\ \E i \in DOMAIN v.names : v.names[i] = name
    THEN v.items[CHOOSE i \in DOMAIN v.names : v.names[i] = name]
    ELSE Scalar("Nothing", 0)

\* The leaf values reached from the value of a field when the path 'below' is descended
\* through objects and through the elements of arrays: an empty array at the leaf
\* stands for undefined, an empty array above the leaf and a missing field for null.
RECURSIVE LeafValues(_, _)
LeafValues(v, below) ==
    IF v.t = "Array"
    THEN IF v.items = <<>>
         THEN {Scalar(IF below = <<>> THEN "Undefined" ELSE "Null", 0)}
         ELSE IF below = <<>> THEN Range(v.items)
         ELSE UNION {LeafValues(FieldOf(v.items[i], Head(below)), Tail(below)) :
                        i \in DOMAIN v.items}
    ELSE IF below = <<>> THEN {IF v.t = "Nothing" THEN Scalar("Null", 0) ELSE v}
    ELSE LeafValues(FieldOf(v, Head(below)), Tail(below))

\* The least and the greatest of a set of values in the order of cmp3w.
Least(S) == CHOOSE x \in S : \A y \in S : cmp3w(x, y).n <= 0
Greatest(S) == CHOOSE x \in S : \A y \in S : cmp3w(x, y).n >= 0

\* The value at the end of a path that is descended through objects only.
RECURSIVE Descend(_, _)
Descend(v, fp) == IF fp = <<>> THEN v ELSE Descend(FieldOf(v, Head(fp)), Tail(fp))

SortKeyPath == sortPattern(root)[1].path

\* No array is met before level k of the path of the part.
NoArrayAbove(k) ==
    \A j \in 1..(k - 1) : Descend(row.doc, SubSeq(SortKeyPath, 1, j)).t # "Array"

\* C23: the sort key of a part is the minimum of the leaf values on its path when the
\* part is ascending and the maximum when it is descending; an empty array at the leaf
\* gives undefined, an empty array or a missing field above the leaf gives null.
C23_SortKeyIsExtremumOfLeafValues ==
    KeysRun =>
        LET leaves == LeafValues(FieldOf(row.doc, Head(SortKeyPath)), Tail(SortKeyPath))
        IN /\ ~row.failed
           /\ Len(row.keys) = 1
           /\ row.keys[1] = IF sortPattern(root)[1].asc THEN Least(leaves) ELSE Greatest(leaves)
           /\ (NoArrayAbove(Len(SortKeyPath))
                 /\ Descend(row.doc, SortKeyPath) = Value("Array", 0, <<>>, <<>>))
                 => row.keys[1] = Scalar("Undefined", 0)
           /\ \A k \in 1..(Len(SortKeyPath) - 1) :
                 (NoArrayAbove(k)
                  /\ Descend(row.doc, SubSeq(SortKeyPath, 1, k)) \in
                         {Value("Array", 0, <<>>, <<>>), Scalar("Nothing", 0)})
                 => row.keys[1] = Scalar("Null", 0)

\* A descending part a.x over an array of two objects whose x are arrays: the key is
\* the greatest number of both arrays, and it is not the least.
C23_MaximumAcrossNestedArrays ==
    /\ KeysRun
    /\ ~sortPattern(root)[1].asc
    /\ SortKeyPath = <<"a", "x">>
    /\ FieldOf(row.doc, "a").t = "Array"
    /\ Len(FieldOf(row.doc, "a").items) = 2
    /\ \A i \in 1..2 : FieldOf(FieldOf(row.doc, "a").items[i], "x").t = "Array"
    /\ FieldOf(FieldOf(row.doc, "a").items[1], "x").items = <<Scalar("Int", 1), Scalar("Int", 2)>>
    /\ row.keys[1] = Scalar("Int", 2)
    /\ Least(LeafValues(FieldOf(row.doc, "a"), <<"x">>)) = Scalar("Undefined", 0)

FetchDone == RecDone /\ root.kind = "FETCH" /\ res.ok

\* The loop join of the tree built: under the residual filter when the node has one.
FetchJoin == IF hasFilter(root) THEN res.stage.kids[1] ELSE res.stage

\* The shape of the tree built over the child's build c.
FetchOver(c) ==
    LET childRecordId == SlotsGet(c.out, kRecordId)
        inner == FetchJoin.kids[2]
        forwarded == {SlotsGet(c.out, m) : m \in reqs.slots \ {kResult, kRecordId}}
                     \cup Range(c.out.iks.v)
    IN /\ c.ok /\ SlotsHas(c.out, kRecordId)
       /\ hasFilter(root) <=> res.stage.op = "filter"
       /\ FetchJoin.op = "loopjoin"
       /\ FetchJoin.kids[1] = c.stage
       /\ inner.op = "limitskip" /\ inner.at.limit = 1 /\ inner.at.skip = None
       /\ inner.kids[1].op = "scan" /\ inner.kids[1].at.seek = childRecordId
       /\ FetchJoin.at.corr = <<childRecordId>>
       /\ Range(FetchJoin.at.fwd) = forwarded
       /\ hasFilter(root) =>
             /\ forwarded \subseteq Range(res.stage.at.fwd)
             /\ res.stage.at.in = SlotsGet(res.out, kResult)
       /\ SlotsHas(res.out, kResult) /\ SlotsHas(res.out, kRecordId)
       /\ {SlotsGet(res.out, kResult), SlotsGet(res.out, kRecordId)} = inner.kids[1].defs
       /\ SlotsGet(res.out, kResult) # SlotsGet(res.out, kRecordId)
       /\ \A m \in {kResult, kRecordId} :
             /\ SlotsGet(res.out, m) > c.st.gen
             /\ SlotsGet(res.out, m) \notin DefinedSlots(c.stage)
       /\ res.out.iks = c.out.iks
       /\ \A m \in reqs.slots \ {kResult, kRecordId} : SlotsGet(res.out, m) = SlotsGet(c.out, m)

\* C24: buildFetch builds its child with the parent's requirements minus result plus
\* recordId; the child is the outer side of a loop join whose inner side is a scan
\* seeking the child's recordId slot, limited to one row and correlated on that slot;
\* the join, and the residual filter if there is one, forward every other named slot
\* the parent requested and every index key slot of the child; the result and recordId
\* returned are the two fresh slots of the inner scan.
C24_FetchJoinsChildWithSeek ==
    FetchDone =>
        FetchOver(build(root.kids[1], ReqsSet(ReqsClear(reqs, kResult), kRecordId),
                        NewBuildState(cq.tailable, cq.collator), <<1>>))

\* A fetch with a residual filter over an index scan, asked for the return key and for
\* index key slots, all of which are forwarded.
C24_FilteredFetchForwardsKeySlots ==
    /\ FetchDone /\ hasFilter(root)
    /\ root.kids[1].kind = "IXSCAN"
    /\ ReqsHas(reqs, kReturnKey) /\ reqs.ikb.has
    /\ res.out.iks.has /\ Len(res.out.iks.v) >= 1
    /\ Len(FetchJoin.at.fwd) >= 2

\* The calls of build for a limit node whose child is a skip node.
FusedCalls ==
    {e \in Invocations : /\ NodeAt(root, e.path).kind = "LIMIT"
                         /\ NodeAt(root, e.path).kids[1].kind = "SKIP"}

\* The number of limit-skip operators of a stage tree that carry both a limit and a skip.
RECURSIVE CountFused(_)
CountFused(s) ==
    (IF s.op = "limitskip" /\ s.at.limit # None /\ s.at.skip # None THEN 1 ELSE 0)
    + SeqSum([i \in 1..Len(s.kids) |-> CountFused(s.kids[i])])

\* The number of limit nodes directly over a skip node in a solution.
RECURSIVE CountLimitOverSkip(_)
CountLimitOverSkip(n) ==
    (IF n.kind = "LIMIT" /\ n.kids[1].kind = "SKIP" THEN 1 ELSE 0)
    + SeqSum([i \in 1..Len(n.kids) |-> CountLimitOverSkip(n.kids[i])])

\* C25: a limit node directly over a skip node is lowered to one limit-skip operator
\* that carries the limit and the skip, over the translation of the skip node's child;
\* build is never called for the skip node, which therefore emits no operator of its
\* own and starts no tailable union.
C25_LimitOverSkipFused ==
    (TopDone /\ res.ok) =>
        /\ \A e \in FusedCalls :
              /\ \A f \in Invocations : f.path # Append(e.path, 1)
              /\ \E f \in Invocations : f.path = e.path \o <<1, 1>>
              /\ \A i \in DOMAIN res.st.sites : res.st.sites[i] # Append(e.path, 1)
        /\ CountFused(res.stage) = CountLimitOverSkip(root)
        /\ CountNodeLimitSkips(res.stage) = ExpectedLimitSkips(root)
        /\ \A s \in StagesOf(res.stage) :
              (s.op = "limitskip" /\ s.at.limit # None /\ s.at.skip # None) =>
                  \E n \in NodesOf(root) :
                      /\ n.kind = "LIMIT" /\ n.kids[1].kind = "SKIP"
                      /\ s.at.limit = limitOf(n) /\ s.at.skip = skipOf(n.kids[1])
        /\ (root.kind = "LIMIT" /\ root.kids[1].kind = "SKIP" /\ ~cq.tailable) =>
              res.stage.kids[1] = build(root.kids[1].kids[1], TopReqs(data),
                                        NewBuildState(cq.tailable, cq.collator), <<1, 1>>).stage

\* A tailable limit over a skip over a collection scan: one union, started at the
\* limit node, with the one fused operator in its anchor branch.
C25_TailableLimitOverSkip ==
    /\ TopDone /\ res.ok /\ cq.tailable
    /\ root.kind = "LIMIT" /\ root.kids[1].kind = "SKIP"
    /\ res.st.sites = << <<>> >>
    /\ CountFused(res.stage) = 1
    /\ \E u \in TailableUnions :
          /\ AnchorSubtree(u).op = "limitskip"
          /\ AnchorSubtree(u).at.limit = limitOf(root)
          /\ AnchorSubtree(u).at.skip = skipOf(root.kids[1])

EofDone == RecDone /\ root.kind = "EOF"

\* The zero-row source of the EOF plan: a limit of 0 over a coscan.
IsZeroRows(s) ==
    /\ s.op = "limitskip" /\ s.at.limit = 0 /\ s.at.skip = None
    /\ s.kids[1].op = "coscan"

\* C26: the EOF translator returns a plan of zero rows in which a project stage binds
\* every requested slot to Nothing, the project stage being left out only when nothing
\* is requested; every requested item, the index key slots asked for through the
\* index-key bitset included, is defined by the returned plan.
C26_EofDefinesEveryRequestedItem ==
    EofDone =>
        /\ res.ok
        /\ IF reqs.slots = {} /\ ~reqs.ikb.has THEN IsZeroRows(res.stage)
           ELSE /\ res.stage.op = "project" /\ res.stage.at.expr = "Nothing"
                /\ IsZeroRows(res.stage.kids[1])
        /\ \A name \in reqs.slots :
              SlotsHas(res.out, name) /\ SlotsGet(res.out, name) \in DefinedSlots(res.stage)
        /\ reqs.ikb.has =>
              /\ res.out.iks.has
              /\ Len(res.out.iks.v) = Cardinality(reqs.ikb.bits)
              /\ Range(res.out.iks.v) \subseteq DefinedSlots(res.stage)

\* An EOF node asked for index key slots succeeds and returns none.
C26_EofWithoutIndexKeySlots ==
    /\ EofDone /\ res.ok
    /\ reqs.ikb.has /\ reqs.ikb.bits # {}
    /\ ~res.out.iks.has
    /\ \A name \in reqs.slots : SlotsGet(res.out, name) \in DefinedSlots(res.stage)

AndDone == mode = "and" /\ pc = "done"

\* The requirements every child of an and-hash node is built with.
AndChildReqs == ReqsSet(ReqsSet(reqs, kResult), kRecordId)

\* The build of child i again, from the slot id at which its call of build began.
AndChild(i) ==
    build(root.kids[i], AndChildReqs,
          [NewBuildState(cq.tailable, cq.collator) EXCEPT
              !.gen = (CHOOSE e \in Invocations : e.path = <<i>>).lo],
          <<i>>)

\* The join that stands k joins below the topmost one.
RECURSIVE JoinBelow(_)
JoinBelow(k) == IF k = 0 THEN res.stage ELSE JoinBelow(k - 1).kids[2]

\* C27: an and-hash node with n >= 2 children builds every child with the parent's
\* requirements plus result and recordId and stacks n - 1 hash joins keyed on recordId;
\* the first joins the first child (outer) with the second (inner), each later one
\* joins the next child (outer) with the previous join (inner) on the second child's
\* recordId and projects the second child's result; a requested result or recordId is
\* returned as the second child's slot. With fewer than two children the build fails.
C27_AndHashStacksJoins ==
    AndDone =>
        /\ Len(root.kids) < 2 => ~res.ok
        /\ res.ok =>
              LET n == Len(root.kids)
                  second == AndChild(2)
                  innerId == SlotsGet(second.out, kRecordId)
                  innerResult == SlotsGet(second.out, kResult)
              IN /\ CountOps(res.stage, "hashjoin") = n - 1
                 /\ \A i \in 1..n : \E e \in Invocations : e.path = <<i>>
                 /\ \A k \in 0..(n - 2) :
                       LET join == JoinBelow(k)
                           outer == AndChild(IF k = n - 2 THEN 1 ELSE n - k)
                       IN /\ join.op = "hashjoin"
                          /\ join.kids[1] = outer.stage
                          /\ join.at.outerCond = <<SlotsGet(outer.out, kRecordId)>>
                          /\ join.at.outerProject = <<SlotsGet(outer.out, kResult)>>
                          /\ join.at.innerCond = <<innerId>>
                          /\ join.at.innerProject = <<innerResult>>
                          /\ k = n - 2 => join.kids[2] = second.stage
                 /\ {innerId, innerResult} \subseteq DefinedSlots(second.stage)
                 /\ ReqsHas(reqs, kRecordId) => SlotsGet(res.out, kRecordId) = innerId
                 /\ ReqsHas(reqs, kResult) => SlotsGet(res.out, kResult) = innerResult

\* Three children, result and recordId requested: two joins, the third child outermost.
C27_ThreeChildrenTwoJoins ==
    /\ AndDone /\ res.ok
    /\ Len(root.kids) = 3
    /\ {kResult, kRecordId} \subseteq reqs.slots
    /\ CountOps(res.stage, "hashjoin") = 2
    /\ res.stage.kids[2].op = "hashjoin"
    /\ SlotsGet(res.out, kRecordId) = res.stage.kids[2].at.innerCond[1]

\* The build failed in the root's translator before any child was built and before
\* any slot id was taken.
RejectedAtOnce ==
    /\ ~res.ok
    /\ \A e \in Invocations : e.path = <<>>
    /\ res.st.gen = NewBuildState(cq.tailable, cq.collator).gen

\* The call is diverted to the builder of the tailable union.
DivertedToTailableUnion == cq.tailable /\ root.kind \in TailableSplitKinds /\ ~reqs.union

\* Every item of the requirements is in the returned bindings.
EveryRequestedItemReturned ==
    /\ \A name \in reqs.slots : SlotsHas(res.out, name)
    /\ reqs.ikb.has => (res.out.iks.has /\ Len(res.out.iks.v) = Cardinality(reqs.ikb.bits))

\* C28: every translator fails the build, before it recurses or emits anything, on
\* requirements it cannot satisfy: index scan, virtual scan, fetch and text match on
\* oplogTs; collection scan, sort, sort merge, the three projections, or and text-or,
\* return key, text match and the tailable union on an index-key bitset; and no
\* translator succeeds without returning an item that was requested.
C28_UnsatisfiableRequirementsRejected ==
    RecDone =>
        /\ (/\ root.kind \in {"IXSCAN", "VIRTUAL_SCAN", "FETCH", "TEXT_MATCH"}
            /\ ~DivertedToTailableUnion
            /\ ReqsHas(reqs, kOplogTs)) => RejectedAtOnce
        /\ (/\ \/ root.kind \in {"COLLSCAN", "SORT_DEFAULT", "SORT_MERGE", "PROJECTION_SIMPLE",
                                 "PROJECTION_COVERED", "PROJECTION_DEFAULT", "OR", "TEXT_OR",
                                 "RETURN_KEY", "TEXT_MATCH"}
               \/ DivertedToTailableUnion
            /\ reqs.ikb.has) => RejectedAtOnce
        /\ res.ok => EveryRequestedItemReturned

\* A return-key node over an index scan, asked for returnKey, succeeds and returns none.
C28_ReturnKeyNotReturned ==
    /\ RecSucceeded
    /\ root.kind = "RETURN_KEY" /\ root.kids[1].kind = "IXSCAN"
    /\ ReqsHas(reqs, kReturnKey)
    /\ ~SlotsHas(res.out, kReturnKey)


-----------------------------------------------------------------------------
(* Termination of the recursive build.                                       *)

\* Call f was made between the entry and the return of call e.
CalledWithin(e, f) == e.enter <= f.enter /\ f.seq < e.seq

\* Call e was diverted to the tailable union: a collection scan, limit or skip node
\* of a tailable query, reached without the is-building-tailable-union flag.
Diverted(e) ==
    /\ cq.tailable /\ ~e.union
    /\ NodeAt(root, e.path).kind \in {"COLLSCAN", "LIMIT", "SKIP"}

\* The calls the tailable union made for the node of the diverted call e.
ReEntries(e) == {f \in Invocations : CalledWithin(e, f) /\ f.path = e.path}

\* The number of nodes of a solution tree.
RECURSIVE CountNodes(_)
CountNodes(n) == 1 + SeqSum([i \in 1..Len(n.kids) |-> CountNodes(n.kids[i])])

\* C29: the recursive build returns on every solution tree, also for tailable
\* queries: a diverted call re-enters the dispatcher at most twice for its own node,
\* every call made within a diverted or a flagged call carries the
\* is-building-tailable-union flag and so is not diverted again, every call that is
\* not diverted calls only for nodes strictly below its own, and the number of calls
\* is bounded by three per node.
C29_RecursionDescendsAfterOneDiversion ==
    TopDone =>
        /\ Cardinality(Invocations) <= 3 * CountNodes(root)
        /\ \A e \in Invocations : \A f \in Invocations :
              CalledWithin(e, f) =>
                  /\ IsPrefix(e.path, f.path)
                  /\ (Diverted(e) \/ e.union) => (f.union /\ ~Diverted(f))
                  /\ ~Diverted(e) => Len(f.path) > Len(e.path)
        /\ \A e \in Invocations : Diverted(e) => Cardinality(ReEntries(e)) <= 2

\* A tailable skip over a limit over a collection scan was diverted at the skip, which
\* was entered twice more, and each node below it was entered once in either branch.
C29_TailableSkipOverLimitBuilt ==
    /\ TopDone /\ res.ok /\ cq.tailable
    /\ root.kind = "SKIP" /\ root.kids[1].kind = "LIMIT"
    /\ root.kids[1].kids[1].kind = "COLLSCAN"
    /\ Cardinality(Invocations) = 7
    /\ \E e \in Invocations :
          /\ Diverted(e) /\ e.path = <<>>
          /\ Cardinality(ReEntries(e)) = 2
          /\ \A f \in Invocations : f # e => CalledWithin(e, f) /\ f.union


-----------------------------------------------------------------------------
(* The cleanupReshardCollection command of the config server.                *)

CleanupDone == mode = "cleanup" /\ pc = "done"

\* The collection entry of the namespace of the request.
RequestedEntry == cmd.catalog[cmd.ns]

\* C30: the command runs the resharding cleaner only when the feature flag is enabled,
\* the node is a config server, the write concern is majority and the collection entry
\* has resharding fields, and then for the namespace and the resharding UUID of the
\* entry; the three checks fail in this order with CommandNotSupported,
\* IllegalOperation and InvalidOptions; an entry without resharding fields makes the
\* command return success without a cleaner being run.
C30_CleanerRunsOnlyAfterOrderedChecks ==
    CleanupDone =>
        /\ cmd.status = "CommandNotSupported" <=> ~cmd.featureFlag
        /\ cmd.status = "IllegalOperation" <=>
              (cmd.featureFlag /\ cmd.clusterRole # "ConfigServer")
        /\ cmd.status = "InvalidOptions" <=>
              (cmd.featureFlag /\ cmd.clusterRole = "ConfigServer" /\ cmd.wMode # "majority")
        /\ cmd.cleaned # <<>> <=>
              /\ cmd.featureFlag /\ cmd.clusterRole = "ConfigServer"
              /\ cmd.wMode = "majority"
              /\ RequestedEntry.reshardingFields # None
        /\ cmd.cleaned # <<>> =>
              cmd.cleaned = <<[ns |-> cmd.ns,
                               reshardingUUID |-> RequestedEntry.reshardingFields]>>
        /\ (cmd.status \notin {"CommandNotSupported", "IllegalOperation", "InvalidOptions"}
             /\ RequestedEntry.reshardingFields = None)
              => cmd.status = "OK" /\ cmd.cleaned = <<>>

\* On a config server with the flag enabled, a request with majority write concern
\* for a collection whose entry has resharding fields ran the cleaner for that
\* namespace and resharding UUID, under local read concern, and returned success.
C30_CleanerRanForReshardingEntry ==
    /\ CleanupDone
    /\ cmd.featureFlag /\ cmd.clusterRole = "ConfigServer" /\ cmd.wMode = "majority"
    /\ RequestedEntry.reshardingFields = MaxReshardingUUID
    /\ cmd.cleaned = <<[ns |-> cmd.ns, reshardingUUID |-> MaxReshardingUUID]>>
    /\ cmd.readConcern = "local"
    /\ cmd.status = "OK"

====
